---------------------------- MODULE Spec2Model ----------------------------
(***************************************************************************)
(* Model of the QDT crystal calculator: the time-crystal oscillator, the   *)
(* per-step simulation loop of CrystalCalculator, the path analyzer and    *)
(* the Flask handlers that call them.                                      *)
(*                                                                         *)
(* Floating-point numbers are modelled as fixed-point integers: the real   *)
(* x is the integer x * Scale, every product and quotient truncates, and   *)
(* numpy's sin, cos, exp and power are computed by range reduction and     *)
(* Taylor series on those integers.  One unit (1/Scale) plays the role of  *)
(* one unit in the last place of a float.                                  *)
(***************************************************************************)
EXTENDS Integers, Sequences, FiniteSets, TLC

(***************************************************************************)
(* Fixed-point arithmetic                                                  *)
(***************************************************************************)
Scale == 10^6

Limb == 10^3

Abs(x) == IF x < 0 THEN -x ELSE x

Sgn(x) == IF x < 0 THEN -1 ELSE 1

Max(a, b) == IF a >= b THEN a ELSE b

Min(a, b) == IF a <= b THEN a ELSE b

\* a * b / Scale for a, b >= 0, on three limbs so that no partial product
\* leaves the 32-bit range of the integers.
MulN(a, b) ==
    LET a2 == a \div Scale
        a1 == (a \div Limb) % Limb
        a0 == a % Limb
        b2 == b \div Scale
        b1 == (b \div Limb) % Limb
        b0 == b % Limb
    IN  a2 * b2 * Scale
        + (a2 * b1 + a1 * b2) * Limb
        + (a2 * b0 + a1 * b1 + a0 * b2)
        + (a1 * b0 + a0 * b1 + (a0 * b0) \div Limb) \div Limb

\* The float product a * b.
Mul(a, b) == Sgn(a) * Sgn(b) * MulN(Abs(a), Abs(b))

RECURSIVE DivDigits(_, _, _)
DivDigits(r, b, n) ==
    IF n = 0 THEN 0
    ELSE ((r * 10) \div b) * 10^(n - 1) + DivDigits((r * 10) % b, b, n - 1)

\* a * Scale / b for a >= 0, b > 0, by long division.
DivN(a, b) == (a \div b) * Scale + DivDigits(a % b, b, 6)

\* The float quotient a / b, b # 0.
Div(a, b) == Sgn(a) * Sgn(b) * DivN(Abs(a), Abs(b))

\* np.pi
PI == 3141593

TWO_PI == 2 * PI

HALF_PI == PI \div 2

RECURSIVE SinSeries(_, _, _, _)
\* term - term*y2/(n(n+1)) + ... : the Taylor series of sin up to y^13.
SinSeries(term, y2, n, last) ==
    IF n > last THEN 0
    ELSE term + SinSeries(-(Mul(term, y2) \div ((n + 1) * (n + 2))), y2, n + 2, last)

\* np.sin: the argument is reduced to [-pi/2, pi/2] first; the result is kept
\* in [-1, 1], the range of the library function, against the series' last units.
Sin(x) ==
    LET y0 == x % TWO_PI
        y1 == IF y0 > PI THEN y0 - TWO_PI ELSE y0
        y  == IF y1 > HALF_PI THEN PI - y1
              ELSE IF y1 < -HALF_PI THEN -PI - y1
              ELSE y1
        s  == SinSeries(y, Mul(y, y), 1, 13)
    IN  Max(-Scale, Min(Scale, s))

\* np.cos
Cos(x) == Sin(x + HALF_PI)

RECURSIVE ExpSeries(_, _, _, _)
\* 1 + z + z^2/2! + ... up to z^last.
ExpSeries(term, z, n, last) ==
    IF n > last THEN 0
    ELSE term + ExpSeries(Mul(term, z) \div (n + 1), z, n + 1, last)

\* np.exp: exp(x) = exp(x/8)^8.
Exp(x) ==
    LET z  == Sgn(x) * (Abs(x) \div 8)
        e1 == ExpSeries(Scale, z, 0, 10)
        e2 == Mul(e1, e1)
        e4 == Mul(e2, e2)
    IN  Mul(e4, e4)

RECURSIVE LnSeries(_, _, _, _)
\* z + z^3/3 + z^5/5 + ... up to z^last.
LnSeries(pow, z2, n, last) ==
    IF n > last THEN 0
    ELSE pow \div n + LnSeries(Mul(pow, z2), z2, n + 2, last)

\* ln 2 = 2 * atanh(1/3)
LN2 ==
    LET z == Div(Scale, 3 * Scale)
    IN  2 * LnSeries(z, Mul(z, z), 1, 15)

RECURSIVE LnGE1(_)
\* The natural logarithm of y >= 1: halve y into [1, 2), then the series of
\* 2 * atanh((y - 1) / (y + 1)).
LnGE1(y) ==
    IF y >= 2 * Scale THEN LN2 + LnGE1(y \div 2)
    ELSE LET z == Div(y - Scale, y + Scale)
         IN  2 * LnSeries(z, Mul(z, z), 1, 15)

Ln(y) == IF y >= Scale THEN LnGE1(y) ELSE -LnGE1(Div(Scale, y))

\* The float power base ** expo for base > 0.
Pow(base, expo) == Exp(Mul(expo, Ln(base)))

\* s[lo] + ... + s[hi], summed by halves to keep the evaluation shallow.
RECURSIVE SumRange(_, _, _)
SumRange(s, lo, hi) ==
    IF lo > hi THEN 0
    ELSE IF lo = hi THEN s[lo]
    ELSE LET mid == (lo + hi) \div 2
         IN  SumRange(s, lo, mid) + SumRange(s, mid + 1, hi)

\* np.sum of a sequence of finite numbers.
Sum(s) == SumRange(s, 1, Len(s))

\* The part of a * b below one unit, in units of 1/Scale^2 (a, b >= 0).
MulRem(a, b) ==
    LET a1 == (a \div Limb) % Limb
        a0 == a % Limb
        b1 == (b \div Limb) % Limb
        b0 == b % Limb
    IN  (a0 * b0 + ((a1 * b0 + a0 * b1) % Limb) * Limb) % Scale

\* The float square root of x >= 0: the largest s with s * s <= x, found bit
\* by bit.
RECURSIVE SqrtBits(_, _, _)
SqrtBits(x, s, bit) ==
    IF bit = 0 THEN s
    ELSE IF \/ MulN(s + bit, s + bit) < x
            \/ MulN(s + bit, s + bit) = x /\ MulRem(s + bit, s + bit) = 0
         THEN SqrtBits(x, s + bit, bit \div 2)
         ELSE SqrtBits(x, s, bit \div 2)

Sqrt(x) == SqrtBits(x, 0, 2^24)

(***************************************************************************)
(* Non-finite floats and Python's None                                     *)
(***************************************************************************)
\* A float that is nan or +-inf (0/0, x/0, the mean of an empty list).
NaN == -(2^30)

\* Python's None, for an optional argument that was not passed.
None == -(2^30) - 1

\* A string that float() and int() do not parse as a number.
NotANumber == -(2^30) - 2

IsNaN(x) == x = NaN

\* a / b on floats: numpy divides by zero without raising.
FDiv(a, b) == IF IsNaN(a) \/ IsNaN(b) \/ b = 0 THEN NaN ELSE Div(a, b)

FMul(a, b) == IF IsNaN(a) \/ IsNaN(b) THEN NaN ELSE Mul(a, b)

FAdd(a, b) == IF IsNaN(a) \/ IsNaN(b) THEN NaN ELSE a + b

FSub(a, b) == IF IsNaN(a) \/ IsNaN(b) THEN NaN ELSE a - b

\* np.sum of floats, nan when an element is.
FSum(s) == IF \E i \in 1..Len(s) : IsNaN(s[i]) THEN NaN ELSE Sum(s)

\* np.mean: nan for an empty list (numpy warns and returns nan).
Mean(s) ==
    LET total == FSum(s)
    IN  IF Len(s) = 0 \/ IsNaN(total) THEN NaN
        ELSE Sgn(total) * (Abs(total) \div Len(s))

\* np.diff: the first differences of a list.
Diff(s) == [i \in 1..(Len(s) - 1) |-> FSub(s[i + 1], s[i])]

\* Python's s[-w:] for an integer w: the last w elements for w > 0 (all of s
\* when it has fewer), all of s for w = 0, s without its first -w for w < 0.
LastSlice(s, w) ==
    LET from == IF w > 0 THEN Max(1, Len(s) - w + 1) ELSE 1 - w
    IN  IF from > Len(s) THEN <<>> ELSE SubSeq(s, from, Len(s))

\* A float divided by a Python int n > 0.
DivInt(a, n) == Sgn(a) * (Abs(a) \div n)

(***************************************************************************)
(* constants.py and time_crystal.py                                        *)
(***************************************************************************)
\* QDTConstants.LAMBDA (LAMBDA is a reserved word of the language)
QDT_LAMBDA == 867000

GAMMA == 449700

BETA == 310000

ETA == 520000

PHI == 1618034

CRYSTAL_FREQUENCY == 1618033

CRYSTAL_AMPLITUDE == 100000

GAMMA_T == 289000

\* Python's `x or default`: the default replaces None and every falsy x,
\* 0 and 0.0 included.
OrDefault(x, default) == IF x = None \/ x = 0 THEN default ELSE x

\* TimeCrystalOscillator.time_crystal_oscillation(t, frequency, amplitude)
time_crystal_oscillation(t, frequency, amplitude) ==
    LET freq == OrDefault(frequency, CRYSTAL_FREQUENCY)
        amp  == OrDefault(amplitude, CRYSTAL_AMPLITUDE)
    IN  Mul(amp, Sin(Mul(Mul(TWO_PI, t), freq)))

\* TimeCrystalOscillator.time_crystal_modulation(step)
time_crystal_modulation(step) ==
    LET base_oscillation == Sin(DivInt(Mul(Mul(TWO_PI, step), CRYSTAL_FREQUENCY), 100))
        damped_amplitude == Mul(CRYSTAL_AMPLITUDE,
                                Exp(DivInt(Mul(-GAMMA_T, step), 100)))
    IN  Mul(base_oscillation, damped_amplitude)

(***************************************************************************)
(* crystal_calculator.py: the pure parts of                                *)
(* CrystalCalculator.calculate_crystal_enhanced_value                      *)
(***************************************************************************)
DefaultSteps == 100

DefaultWindow == 10

DefaultDepth == 5

\* CrystalCalculatorConfig(): the defaults of the dataclass.
DefaultConfig ==
    [evolution_steps |-> DefaultSteps,
     stability_window |-> DefaultWindow,
     resonance_depth |-> DefaultDepth]

\* The keys of the type_multipliers table.
DefinedTypes ==
    {"currency", "human_life", "natural_resource", "crypto", "art",
     "radioactive_potato"}

\* The table read with a default of 0 instead of 1.0.
MultiplierZeroDefault(calculation_type) ==
    CASE calculation_type = "currency" -> 867000
      [] calculation_type = "human_life" -> 1618000
      [] calculation_type = "natural_resource" -> 1414000
      [] calculation_type = "crypto" -> 618000
      [] calculation_type = "art" -> 1732000
      [] calculation_type = "radioactive_potato" -> PI
      [] OTHER -> 0

\* The table with the entry of human_life pasted over the one of art.
MultiplierDuplicate(calculation_type) ==
    CASE calculation_type = "currency" -> 867000
      [] calculation_type = "human_life" -> 1618000
      [] calculation_type = "natural_resource" -> 1414000
      [] calculation_type = "crypto" -> 618000
      [] calculation_type = "art" -> 1618000
      [] calculation_type = "radioactive_potato" -> PI
      [] OTHER -> Scale

\* type_multipliers.get(calculation_type, 1.0)
Multiplier(calculation_type) ==
    CASE calculation_type = "currency" -> 867000
      [] calculation_type = "human_life" -> 1618000
      [] calculation_type = "natural_resource" -> 1414000
      [] calculation_type = "crypto" -> 618000
      [] calculation_type = "art" -> 1732000
      [] calculation_type = "radioactive_potato" -> PI
      [] OTHER -> Scale

\* np.linspace(0, 10, n)[k] for 0 <= k < n: k times the spacing 10 / (n - 1),
\* the last sample being the endpoint itself.
TimeStep(n, k) ==
    IF n = 1 THEN 0
    ELSE IF k = n - 1 THEN 10 * Scale
    ELSE k * Div(10 * Scale, (n - 1) * Scale)

\* The while loop of _get_prime: trial division by the primes found so far.
RECURSIVE PrimeLoop(_, _, _)
PrimeLoop(primes, num, n) ==
    IF Len(primes) > n THEN primes[Len(primes)]
    ELSE IF \A i \in 1..Len(primes) : num % primes[i] # 0
         THEN PrimeLoop(Append(primes, num), num + 1, n)
         ELSE PrimeLoop(primes, num + 1, n)

\* The same loop entered with n + 1: the primes counted from 1.
GetPrimeCountedFromOne(n) == PrimeLoop(<<>>, 2, n + 1)

\* CrystalCalculator._get_prime(n)
GetPrime(n) == PrimeLoop(<<>>, 2, n)

\* The resonance terms of one step: range(resonance_depth) is empty for a
\* depth of 0 or less.
Resonances(t, crystal_mod, depth) ==
    [j \in 1..depth |->
        LET p == GetPrime(j - 1)
        IN  Mul(Mul(Sin(Mul(Mul(TWO_PI * p, QDT_LAMBDA), t)),
                    Cos(Mul(Mul(PI * p, BETA), t))),
                Scale + Mul(Scale \div 10, crystal_mod))]

\* The quotient with the sum of the magnitudes as its numerator too.
NormalizedResonanceOfMagnitudes(resonances) ==
    LET total_resonance == Sum([j \in 1..Len(resonances) |-> Abs(resonances[j])])
    IN  IF total_resonance > 0 THEN Div(total_resonance, total_resonance) ELSE 0

\* "Normalize resonances"
NormalizedResonance(resonances) ==
    LET total_resonance == Sum([j \in 1..Len(resonances) |-> Abs(resonances[j])])
    IN  IF total_resonance > 0 THEN Div(Sum(resonances), total_resonance) ELSE 0

\* The normalization without its last line, emergence_energy /= total.
NormalizeEnergiesButEmergence(void_energy, filament_energy, emergence_energy) ==
    LET total == void_energy + filament_energy + emergence_energy
    IN  [void      |-> FDiv(void_energy, total),
         filament  |-> FDiv(filament_energy, total),
         emergence |-> emergence_energy]

\* "Normalize energies": each energy divided by their total.
NormalizeEnergies(void_energy, filament_energy, emergence_energy) ==
    LET total == void_energy + filament_energy + emergence_energy
    IN  [void      |-> FDiv(void_energy, total),
         filament  |-> FDiv(filament_energy, total),
         emergence |-> FDiv(emergence_energy, total)]

\* "Base void energy with crystal coupling"
VoidEnergy(t, crystal_mod) ==
    Mul(Mul(Exp(Mul(-GAMMA, t)),
            Pow(Div(Scale, Max(Scale, t)), BETA)),
        Scale + Mul(Scale \div 10, crystal_mod))

\* "Emergence energy with crystal stability"
EmergenceEnergy(t, crystal_mod) ==
    Mul(Mul(Mul(Mul(Mul(ETA, Scale - Exp(Mul(-(Scale \div 10), t))),
                    Sin(Mul(Mul(PI, t), PHI))),
                QDT_LAMBDA),
            GAMMA),
        Scale + Mul(Scale \div 20, crystal_mod))

\* "Filament energy with crystal-enhanced coupling"
FilamentEnergy(void_energy, emergence_energy, normalized_resonance, crystal_mod) ==
    Mul(QDT_LAMBDA, Scale - void_energy)
    + Mul(DivInt(Mul(normalized_resonance, void_energy + emergence_energy), 2),
          Scale + Mul(Scale \div 10, crystal_mod))

\* The six values a step appends to the time series.
StepRecord(energies, normalized_resonance, crystal_phase) ==
    [void          |-> energies.void,
     filament      |-> energies.filament,
     emergence     |-> energies.emergence,
     resonance     |-> normalized_resonance,
     crystal_phase |-> crystal_phase,
     convergence   |-> Abs(crystal_phase - normalized_resonance)]

\* The step once the raw void and emergence energies and the normalized
\* resonance are known: filament, normalization, phase and convergence.
StepFromEnergies(t, crystal_mod, void_energy, emergence_energy, normalized_resonance) ==
    StepRecord(NormalizeEnergies(void_energy,
                                 FilamentEnergy(void_energy, emergence_energy,
                                                normalized_resonance, crystal_mod),
                                 emergence_energy),
               normalized_resonance,
               time_crystal_oscillation(t, None, None))

\* The step once the crystal modulation is known.
StepFromModulation(t, depth, crystal_mod) ==
    StepFromEnergies(t, crystal_mod,
                     VoidEnergy(t, crystal_mod),
                     EmergenceEnergy(t, crystal_mod),
                     NormalizedResonance(Resonances(t, crystal_mod, depth)))

\* The body of the loop `for t in time_steps` up to the convergence metric.
StepValues(t, depth) == StepFromModulation(t, depth, time_crystal_modulation(t))

\* The append without the pop(0).
PushWindowKeepAll(window, convergence, size) == Append(window, convergence)

\* "Update stability window": append, then drop the oldest when over the size.
PushWindow(window, convergence, size) ==
    LET pushed == Append(window, convergence)
    IN  IF Len(pushed) > size THEN Tail(pushed) ELSE pushed

\* "Calculate final QDT value":
\* the same product with the weights 4, 4 and 2 in place of 0.4, 0.4 and 0.2.
QdtValueWholeWeights(value, multiplier, final_void, final_filament, final_emergence) ==
    FMul(Mul(value, multiplier),
         FAdd(FAdd(FMul(final_void, 4 * Scale), FMul(final_filament, 4 * Scale)),
              FMul(final_emergence, 2 * Scale)))

\* qdt_value = value * multiplier * (0.4 void + 0.4 filament + 0.2 emergence).
QdtValue(value, multiplier, final_void, final_filament, final_emergence) ==
    FMul(Mul(value, multiplier),
         FAdd(FAdd(FMul(final_void, 4 * (Scale \div 10)),
                   FMul(final_filament, 4 * (Scale \div 10))),
              FMul(final_emergence, 2 * (Scale \div 10))))

\* np.std: the square root of the mean squared deviation from the mean.
Std(s) ==
    LET m == Mean(s)
    IN  IF IsNaN(m) THEN NaN
        ELSE Sqrt(Mean([i \in 1..Len(s) |-> Mul(s[i] - m, s[i] - m)]))

\* TimeCrystalOscillator.analyze_crystal_stability(t_max = 10.0, n_steps),
\* the two metrics the calculator reads from it.
analyze_crystal_stability(n_steps) ==
    LET t == [i \in 1..n_steps |-> TimeStep(n_steps, i - 1)]
        oscillations == [i \in 1..n_steps |-> time_crystal_oscillation(t[i], None, None)]
        angle(i) == Mul(Mul(TWO_PI, CRYSTAL_FREQUENCY), t[i])
        re == Mean([i \in 1..n_steps |-> Cos(angle(i))])
        im == Mean([i \in 1..n_steps |-> Sin(angle(i))])
    IN  [phase_coherence     |-> IF IsNaN(re) THEN NaN
                                 ELSE Sqrt(Mul(re, re) + Mul(im, im)),
         amplitude_stability |-> Std([i \in 1..n_steps |-> Abs(oscillations[i])])]

\* An exception, by the name of its class.
Raised(error) == [kind |-> "error", error |-> error]

(***************************************************************************)
(* CrystalCalculator.analyze_convergence_path                              *)
(***************************************************************************)
\* The "10% threshold" the eigenvalues are compared with.
EigenThreshold == Scale \div 10

RECURSIVE MaxAbsRange(_, _, _)
\* The largest magnitude among s[lo..hi], by halves.
MaxAbsRange(s, lo, hi) ==
    IF lo > hi THEN 0
    ELSE IF lo = hi THEN Abs(s[lo])
    ELSE Max(MaxAbsRange(s, lo, (lo + hi) \div 2),
             MaxAbsRange(s, (lo + hi) \div 2 + 1, hi))

\* np.cov: the samples minus their mean.
Deviations(s) ==
    LET m == Sum(s) \div Len(s)
    IN  [i \in 1..Len(s) |-> s[i] - m]

\* The deviations divided by their largest magnitude (a correlation does not
\* depend on the scale of a variable; six digits are kept this way).  There
\* are none where np.corrcoef divides 0 by 0: with fewer than 2 samples (the
\* normalization by N - 1) and with a constant variable (its deviation 0).
ScaleToUnit(d, largest) ==
    IF largest = 0 THEN <<>> ELSE [i \in 1..Len(d) |-> Div(d[i], largest)]

UnitDeviationsOf(d) == ScaleToUnit(d, MaxAbsRange(d, 1, Len(d)))

UnitDeviations(s) == IF Len(s) < 2 THEN <<>> ELSE UnitDeviationsOf(Deviations(s))

Dot(u, v) == Sum([i \in 1..Len(u) |-> Mul(u[i], v[i])])

\* One entry of np.corrcoef, clipped to [-1, 1]; nan where a variable has no
\* unit deviations.
Correlation(u, v) ==
    IF Len(u) = 0 \/ Len(v) = 0 THEN NaN
    ELSE Max(-Scale, Min(Scale, Div(Dot(u, v),
                                    Mul(Sqrt(Dot(u, u)), Sqrt(Dot(v, v))))))

\* np.corrcoef(x, y)[0, 1]
corrcoef(x, y) == Correlation(UnitDeviations(x), UnitDeviations(y))

\* np.corrcoef(components) of four variables, from its entries above the
\* diagonal; the diagonal of a matrix without nan is 1.
CorrelationMatrix(c12, c13, c14, c23, c24, c34) ==
    << <<Scale, c12, c13, c14>>,
       <<c12, Scale, c23, c24>>,
       <<c13, c23, Scale, c34>>,
       <<c14, c24, c34, Scale>> >>

ComponentCorrelations(v, f, e, p) ==
    CorrelationMatrix(Correlation(v, f), Correlation(v, e), Correlation(v, p),
                      Correlation(f, e), Correlation(f, p), Correlation(e, p))

\* np.linalg.eigvals refuses a matrix with nan (LinAlgError).
HasNaN(A) == \E i \in DOMAIN A : \E j \in DOMAIN A[i] : IsNaN(A[i][j])

MatMul(A, B) ==
    [i \in DOMAIN A |->
        [j \in DOMAIN A |-> Sum([m \in DOMAIN A |-> Mul(A[i][m], B[m][j])])]]

AddDiag(A, c) ==
    [i \in DOMAIN A |-> [j \in DOMAIN A |-> IF i = j THEN A[i][j] + c ELSE A[i][j]]]

Trace(A) == Sum([i \in DOMAIN A |-> A[i][i]])

Identity(A) == [i \in DOMAIN A |-> [j \in DOMAIN A |-> IF i = j THEN Scale ELSE 0]]

RECURSIVE Coefficients(_, _, _)
\* The coefficients, after the leading 1, of the characteristic polynomial
\* of B (Faddeev-LeVerrier): from M = I, c = -tr(B M) / n and M <- B M + c I.
WithCoefficient(B, BM, n, c) == <<c>> \o Coefficients(B, AddDiag(BM, c), n + 1)

FromProduct(B, BM, n) == WithCoefficient(B, BM, n, (-Trace(BM)) \div n)

Coefficients(B, M, n) ==
    IF n > Len(B) THEN <<>> ELSE FromProduct(B, MatMul(B, M), n)

CharacteristicPolynomial(B) == <<Scale>> \o Coefficients(B, Identity(B), 1)

\* The number of sign changes along the nonzero coefficients.
SignChangesOf(nz) == Cardinality({i \in 1..(Len(nz) - 1) : Sgn(nz[i]) # Sgn(nz[i + 1])})

SignChanges(coefficients) == SignChangesOf(SelectSeq(coefficients, LAMBDA c : c # 0))

\* np.sum(np.linalg.eigvals(correlations) > 0.1).  The matrix is symmetric,
\* its eigenvalues are real, and so the number of them above the threshold
\* is the number of positive roots of the characteristic polynomial of
\* correlations - 0.1 I, which is the number of sign changes of its
\* coefficients.
EigenvaluesAbove(correlations, threshold) ==
    SignChanges(CharacteristicPolynomial(AddDiag(correlations, -threshold)))

\* The dict analyze_convergence_path returns.
PathMetrics(ts, correlations) ==
    [kind                       |-> "metrics",
     void_filament_coupling     |-> corrcoef(ts.void, ts.filament),
     crystal_resonance_coupling |-> corrcoef(ts.crystal_phase, ts.resonance),
     convergence_stability      |-> FSub(Scale, Std(ts.convergence)),
     effective_dimensionality   |-> EigenvaluesAbove(correlations, EigenThreshold),
     final_convergence          |-> ts.convergence[Len(ts.convergence)]]

AnalyzeComponents(ts, correlations) ==
    IF HasNaN(correlations) THEN Raised("LinAlgError")
    ELSE PathMetrics(ts, correlations)

\* analyze_convergence_path on a dict of six channels of one length.  The
\* two couplings and the standard deviation are nan without an exception on
\* short or constant channels; np.linalg.eigvals is the first call to raise.
analyze_convergence_path(ts) ==
    AnalyzeComponents(ts, ComponentCorrelations(UnitDeviations(ts.void),
                                                 UnitDeviations(ts.filament),
                                                 UnitDeviations(ts.emergence),
                                                 UnitDeviations(ts.crystal_phase)))

(***************************************************************************)
(* State                                                                   *)
(***************************************************************************)
VARIABLES
    pc,                   \* where control is: "idle", "loop" or "done"
    caller,               \* who called the calculator: "direct", ...
    call,                 \* the arguments of the call in progress
    k,                    \* the number of loop iterations completed
    time_series,          \* the dict of the six channels
    stability_window,     \* the list stability_window
    convergence_history,  \* the list convergence_history
    outcome,              \* what the call returned or raised
    fixture,              \* test_different_calculation_types: value and config
    results,              \* test_different_calculation_types: the dict results
    osc,                  \* the last call of time_crystal_oscillation
    analysis,             \* the last call of analyze_convergence_path
    request,              \* the HTTP request being served, or served last
    response,             \* the response to it, once there is one
    batch_results,        \* batch_calculate: the list results
    calculator,           \* a CrystalCalculator instance shared by callers
    threads,              \* the calls in progress on it, one per thread
    memo,                 \* an earlier call on it and what it returned
    modulations,          \* test_time_crystal_modulation: the values sampled
    heap,                 \* the list objects alive, by identity
    fields,               \* test_time_evolution_crystalized: the dict fields
    evolution,            \* the call of time_evolution_crystalized
    lucas,                \* the call of lucas_lehmer_small
    verification,         \* the call of verify_algorithm
    auth,                 \* the call of QDTAccessControl.authenticate_user
    sieve,                \* the call of CrystalCalculator._get_prime
    auth_attempts,        \* redis: the keys auth_attempts:<user_key>
    guard,                \* require_auth: the request being served
    failures,             \* per user key, the failed attempts counted since
                          \* the last success or expiry
    trackers,             \* the calls of track_auth_attempt in progress
    security_events,      \* redis: the list security_events, newest first
    pushed,               \* the number of events pushed so far
    loggers,              \* the calls of log_security_event in progress
    alert_history,        \* AlertSender._alert_history
    delivered,            \* the number of deliveries that succeeded so far
    alerting              \* the call of an AlertSender method in progress

\* No call of time_evolution_crystalized in progress.
NoEvolution ==
    [pc |-> "idle", copied |-> FALSE, time_step |-> 0, crystal_mod |-> 0,
     key |-> 0, i |-> 0, fields_output |-> <<>>, created |-> <<>>,
     evolved_fields |-> <<>>]

\* The user keys whose counters the model follows: the tests' "0" and "12345".
TrackedKeys == {0, 12345}

\* A key redis does not hold: INCR starts from 0, and no key holds 0.
NoCounter == [value |-> 0, armed |-> FALSE]

\* The threads that call track_auth_attempt.
Trackers == {1, 2}

\* A thread outside track_auth_attempt.
NoTracker ==
    [pc |-> "idle", user_key |-> 0, success |-> FALSE, attempts |-> 0,
     counted |-> 0, logged |-> <<>>]

\* The threads that call log_security_event.
Loggers == {1, 2}

\* No call of an AlertSender method in progress.
NoAlerting ==
    [pc |-> "idle", channel |-> "", outcome |-> "", limit |-> 0, returned |-> <<>>]

\* No request inside require_auth.
NoGuard ==
    [pc |-> "idle", level |-> "PUBLIC",
     auth_header |-> [present |-> FALSE, credentials |-> <<>>],
     challenge |-> 0, user_key |-> 0, access_level |-> 0, tracked |-> FALSE,
     invoked |-> FALSE, logged |-> <<>>, status |-> 0, error |-> ""]

\* No call of _get_prime in progress.
NoSieve == [pc |-> "idle", n |-> 0, primes |-> <<>>, num |-> 0, result |-> 0]

\* No call of authenticate_user made.
NoAuthentication ==
    [pc |-> "idle", user_key |-> 0, challenge |-> 0, outcome |-> [kind |-> "none"]]

\* No call of lucas_lehmer_small in progress.
NoLucas ==
    [pc |-> "idle", caller |-> "none", p |-> 0, s |-> 0, M |-> 0, n |-> 0,
     result |-> FALSE]

\* No call of verify_algorithm in progress.
NoVerification == [pc |-> "idle", next |-> 0, results |-> <<>>]

\* The calculator call in progress.
simvars ==
    <<pc, caller, call, k, time_series, stability_window, convergence_history,
      outcome>>

\* The state of the test that compares the calculation types.
testvars == <<fixture, results>>

\* The state of the HTTP layer.
apivars == <<request, response, batch_results>>

\* One calculator instance and the calls its callers make concurrently.
sessionvars == <<calculator, threads, memo>>

\* The state of the tests of the oscillator.
evolvars == <<heap, fields, evolution>>

\* The calls of the functions of qdt_security.py.
lucasvars == <<lucas, verification>>

securityvars == <<lucasvars, auth>>

crystalvars == <<modulations, evolvars>>

\* The state of the parts of the program other than the calculator call,
\* its tests, the oscillator calls, the analysis and the HTTP layer.
\* The state of the middleware and of the monitor behind it.
guardvars == <<auth_attempts, guard>>

trackvars == <<failures, trackers>>

\* The state of the event log.
logvars == <<security_events, pushed, loggers>>

middlewarevars == <<guardvars, trackvars, logvars>>

\* The state of AlertSender.
alertvars == <<alert_history, delivered, alerting>>

extvars == <<sessionvars, crystalvars, securityvars, sieve, middlewarevars, alertvars>>

\* What the callers of the shared calculator leave alone.
sessionrest ==
    <<simvars, testvars, osc, apivars, crystalvars, securityvars, sieve,
      middlewarevars, alertvars>>

\* What the tests of the oscillator leave alone.
crystalrest ==
    <<simvars, testvars, osc, analysis, apivars, sessionvars, securityvars,
      sieve, middlewarevars, alertvars>>

\* What the functions of qdt_security.py leave alone.
securityrest ==
    <<simvars, testvars, osc, analysis, apivars, sessionvars, crystalvars,
      sieve, middlewarevars, alertvars>>

\* What a call of _get_prime leaves alone.
sieverest ==
    <<simvars, testvars, osc, analysis, apivars, sessionvars, crystalvars,
      securityvars, middlewarevars, alertvars>>

\* What the middleware and the monitor leave alone.
middlewarerest ==
    <<simvars, testvars, osc, analysis, apivars, sessionvars, crystalvars,
      securityvars, sieve, logvars, alertvars>>

\* What log_security_event leaves alone.
logrest ==
    <<simvars, testvars, osc, analysis, apivars, sessionvars, crystalvars,
      securityvars, sieve, guardvars, trackvars, alertvars>>

\* What AlertSender leaves alone.
alertrest ==
    <<simvars, testvars, osc, analysis, apivars, sessionvars, crystalvars,
      securityvars, sieve, middlewarevars>>

lucasrest == <<securityrest, auth>>

authrest == <<securityrest, lucasvars>>

vars == <<simvars, testvars, osc, analysis, apivars, extvars>>

\* Bounds of the inputs the model enumerates.
MaxSteps == 5

MaxWindow == 2

MaxDepth == 2

MaxSamples == 3

\* The configurations passed to CrystalCalculator: every small one, the
\* invalid ones included (a negative count, a zero window or depth, a window
\* above the steps), and the default one.
Configs ==
    {[evolution_steps |-> n, stability_window |-> w, resonance_depth |-> d] :
        n \in -1..MaxSteps, w \in -1..MaxWindow, d \in 0..MaxDepth}
    \cup {DefaultConfig}

\* The values passed: negative, zero, one and the tests' 100.0.
Values == {-Scale, 0, Scale, 100 * Scale}

\* The labels passed: the six of the table, the two others the HTTP layer
\* lists, and one nobody lists.
TypeLabels == DefinedTypes \cup {"energy", "probability", "gold"}

EmptySeries ==
    [void |-> <<>>, filament |-> <<>>, emergence |-> <<>>, resonance |-> <<>>,
     crystal_phase |-> <<>>, convergence |-> <<>>]

NoCall == [value |-> 0, calculation_type |-> "", config |-> DefaultConfig]

NoOutcome == [kind |-> "none"]

NoFixture == [active |-> FALSE, value |-> 0, config |-> DefaultConfig]

NoOscillation == [t |-> 0, frequency |-> None, amplitude |-> None, value |-> 0]

NoAnalysis == [samples |-> 0, outcome |-> NoOutcome]

NoRequest == [endpoint |-> "none"]

NoResponse == [status |-> 0]

\* TimeCrystalOscillator.__init__
NewOscillator ==
    [params |-> [CRYSTAL_FREQUENCY |-> CRYSTAL_FREQUENCY,
                 CRYSTAL_AMPLITUDE |-> CRYSTAL_AMPLITUDE,
                 GAMMA_T           |-> GAMMA_T],
     time_offset |-> 0,
     phase_lock  |-> FALSE]

\* CrystalCalculator.__init__
NewCalculator(config) ==
    [constructed |-> TRUE, config |-> config, crystal |-> NewOscillator]

NoCalculator == [NewCalculator(DefaultConfig) EXCEPT !.constructed = FALSE]

\* The locals of a call that is not in progress.
IdleThread ==
    [pc |-> "idle", value |-> 0, calculation_type |-> "", steps |-> 0, k |-> 0,
     time_series |-> EmptySeries, stability_window |-> <<>>,
     convergence_history |-> <<>>, outcome |-> NoOutcome]

Threads == {1, 2}

NoMemo == [set |-> FALSE]

Init ==
    /\ pc = "idle"
    /\ caller = "none"
    /\ call = NoCall
    /\ k = 0
    /\ time_series = EmptySeries
    /\ stability_window = <<>>
    /\ convergence_history = <<>>
    /\ outcome = NoOutcome
    /\ fixture = NoFixture
    /\ results = <<>>
    /\ osc = NoOscillation
    /\ analysis = NoAnalysis
    /\ request = NoRequest
    /\ response = NoResponse
    /\ batch_results = <<>>
    /\ calculator = NoCalculator
    /\ threads = [t \in Threads |-> IdleThread]
    /\ memo = NoMemo
    /\ modulations = <<>>
    /\ heap = <<>>
    /\ fields = <<>>
    /\ evolution = NoEvolution
    /\ lucas = NoLucas
    /\ verification = NoVerification
    /\ auth = NoAuthentication
    /\ sieve = NoSieve
    /\ auth_attempts = [key \in TrackedKeys |-> NoCounter]
    /\ guard = NoGuard
    /\ failures = [key \in TrackedKeys |-> 0]
    /\ trackers = [i \in Trackers |-> NoTracker]
    /\ security_events = <<>>
    /\ pushed = 0
    /\ loggers = [i \in Loggers |-> "idle"]
    /\ alert_history = <<>>
    /\ delivered = 0
    /\ alerting = NoAlerting

(***************************************************************************)
(* CrystalCalculator.calculate_crystal_enhanced_value, step by step        *)
(***************************************************************************)
\* Entry up to the loop: the empty time series, np.linspace (which raises
\* ValueError for a negative number of samples) and the empty lists.
SimEnter(who, value, calculation_type, config) ==
    /\ caller' = who
    /\ call' = [value |-> value, calculation_type |-> calculation_type,
                config |-> config]
    /\ k' = 0
    /\ time_series' = EmptySeries
    /\ stability_window' = <<>>
    /\ convergence_history' = <<>>
    /\ IF config.evolution_steps < 0
       THEN pc' = "done" /\ outcome' = Raised("ValueError")
       ELSE pc' = "loop" /\ outcome' = NoOutcome
    /\ UNCHANGED <<fixture, osc, extvars, analysis>>

\* The appends without the one to the convergence channel.
AppendStepButConvergence(series, v) ==
    [void          |-> Append(series.void, v.void),
     filament      |-> Append(series.filament, v.filament),
     emergence     |-> Append(series.emergence, v.emergence),
     resonance     |-> Append(series.resonance, v.resonance),
     crystal_phase |-> Append(series.crystal_phase, v.crystal_phase),
     convergence   |-> series.convergence]

\* "Track metrics": one element appended to each of the six channels.
AppendStep(series, v) ==
    [void          |-> Append(series.void, v.void),
     filament      |-> Append(series.filament, v.filament),
     emergence     |-> Append(series.emergence, v.emergence),
     resonance     |-> Append(series.resonance, v.resonance),
     crystal_phase |-> Append(series.crystal_phase, v.crystal_phase),
     convergence   |-> Append(series.convergence, v.convergence)]

\* The loop body's writes, given the step's values and the updated window.
StepWrites(v, window) ==
    /\ stability_window' = window
    /\ time_series' = AppendStep(time_series, v)
    /\ convergence_history' = Append(convergence_history, Mean(window))

\* The loop body's writes, given the step's values.
StepApply(v) ==
    StepWrites(v, PushWindow(stability_window, v.convergence,
                             call.config.stability_window))

\* One iteration of `for t in time_steps`.
SimStep ==
    /\ pc = "loop"
    /\ k < call.config.evolution_steps
    /\ StepApply(StepValues(TimeStep(call.config.evolution_steps, k),
                            call.config.resonance_depth))
    /\ k' = k + 1
    /\ UNCHANGED <<pc, caller, call, outcome, testvars, osc, extvars, analysis, apivars>>

\* The dict the function returns, from the arguments, the configuration and
\* the lists of the call.
ResultOf(value, calculation_type, config, series, history) ==
    LET n == Len(series.void)
        final_void == series.void[n]
        final_filament == series.filament[n]
        final_emergence == series.emergence[n]
        crystal_stability == analyze_crystal_stability(config.evolution_steps)
    IN  [kind             |-> "result",
         original_value   |-> value,
         qdt_value        |-> QdtValue(value, Multiplier(calculation_type),
                                       final_void, final_filament, final_emergence),
         void_energy      |-> final_void,
         filament_energy  |-> final_filament,
         emergence_energy |-> final_emergence,
         time_series      |-> series,
         convergence_metrics |->
             [stability_score     |-> FSub(Scale,
                                           Mean(LastSlice(history,
                                                          config.stability_window))),
              convergence_rate    |-> Mean(Diff(history)),
              final_convergence   |-> history[Len(history)],
              phase_coherence     |-> crystal_stability.phase_coherence,
              amplitude_stability |-> crystal_stability.amplitude_stability]]

SimResult ==
    ResultOf(call.value, call.calculation_type, call.config, time_series,
             convergence_history)

\* After the loop: time_series['void'][-1] raises IndexError on an empty
\* list, otherwise the result is built and returned.
SimFinish ==
    /\ pc = "loop"
    /\ k = call.config.evolution_steps
    /\ pc' = "done"
    /\ outcome' = IF time_series.void = <<>> THEN Raised("IndexError") ELSE SimResult
    /\ UNCHANGED <<caller, call, k, time_series, stability_window,
                   convergence_history, testvars, osc, extvars, analysis, apivars>>

\* A caller of the library (a test, a script) calls the calculator.
Simulate ==
    /\ pc = "idle"
    /\ \E value \in Values, calculation_type \in TypeLabels, config \in Configs :
           SimEnter("direct", value, calculation_type, config)
    /\ UNCHANGED <<results, apivars>>

\* The locals of a call are dropped when its caller has taken the outcome.
DropCall ==
    /\ pc' = "idle"
    /\ caller' = "none"
    /\ call' = NoCall
    /\ k' = 0
    /\ time_series' = EmptySeries
    /\ stability_window' = <<>>
    /\ convergence_history' = <<>>
    /\ outcome' = NoOutcome

\* The caller takes what the call returned or raised; the locals of the call
\* are gone with it.
Return ==
    /\ pc = "done"
    /\ caller = "direct"
    /\ DropCall
    /\ UNCHANGED <<testvars, osc, extvars, analysis, apivars>>

Next == Simulate \/ SimStep \/ SimFinish \/ Return

Spec == Init /\ [][Next]_vars

(***************************************************************************)
(* Callers of analyze_convergence_path, as test_convergence_path_analysis  *)
(***************************************************************************)
\* A caller simulates to get a time series to analyse.
AnalyzeCall ==
    /\ pc = "idle"
    /\ \E value \in Values, config \in Configs :
           SimEnter("analyze", value, "currency", config)
    /\ UNCHANGED <<results, apivars>>

\* The channels cut to their first n samples.
FirstSamples(ts, n) == [c \in DOMAIN ts |-> SubSeq(ts[c], 1, n)]

\* The numbers of samples analysed: the few first ones and all of them.
SampleCounts(n) == {m \in 0..n : m <= MaxSamples \/ m = n}

\* The caller passes the time series of the result, or a cut of it, to
\* analyze_convergence_path.
Analyze ==
    /\ pc = "done"
    /\ caller = "analyze"
    /\ outcome.kind = "result"
    /\ analysis = NoAnalysis
    /\ \E n \in SampleCounts(Len(outcome.time_series.void)) :
           analysis' = [samples |-> n,
                        outcome |-> analyze_convergence_path(
                                        FirstSamples(outcome.time_series, n))]
    /\ UNCHANGED <<simvars, testvars, osc, extvars, apivars>>

\* The caller is done with the result and the analysis.
AnalyzeEnd ==
    /\ pc = "done"
    /\ caller = "analyze"
    /\ DropCall
    /\ analysis' = NoAnalysis
    /\ UNCHANGED <<testvars, osc, extvars, apivars>>

\* Time series a caller builds itself (analyze_convergence_path takes any
\* dict of six lists, and /api/analyze passes the client's): three samples a
\* channel, with the void or the crystal_phase channel constant or varying.
GivenVoid == {<<Scale \div 2, Scale \div 2, Scale \div 2>>,
              <<Scale \div 2, Scale \div 4, Scale \div 5>>}

GivenPhase == {<<0, 0, 0>>, <<0, Scale \div 10, -(Scale \div 20)>>}

GivenSeries ==
    {[void          |-> v,
      filament      |-> <<3 * (Scale \div 10), 4 * (Scale \div 10), 3 * (Scale \div 10)>>,
      emergence     |-> <<2 * (Scale \div 10), 35 * (Scale \div 100), Scale \div 2>>,
      resonance     |-> <<Scale \div 10, 2 * (Scale \div 10), Scale \div 10>>,
      crystal_phase |-> p,
      convergence   |-> <<0, Scale \div 10, Scale \div 20>>] :
        v \in GivenVoid, p \in GivenPhase}

\* A caller passes a time series of its own to analyze_convergence_path.
AnalyzeGiven ==
    /\ pc = "idle"
    /\ analysis = NoAnalysis
    /\ \E ts \in GivenSeries :
           analysis' = [samples |-> Len(ts.void),
                        outcome |-> analyze_convergence_path(ts)]
    /\ pc' = "done"
    /\ caller' = "given"
    /\ UNCHANGED <<call, k, time_series, stability_window, convergence_history,
                   outcome, testvars, osc, extvars, apivars>>

\* The caller is done with the analysis of its own series.
AnalyzeGivenEnd ==
    /\ pc = "done"
    /\ caller = "given"
    /\ DropCall
    /\ analysis' = NoAnalysis
    /\ UNCHANGED <<testvars, osc, extvars, apivars>>

NextAnalyze ==
    \/ AnalyzeCall \/ SimStep \/ SimFinish \/ Analyze \/ AnalyzeEnd
    \/ AnalyzeGiven \/ AnalyzeGivenEnd

SpecAnalyze == Init /\ [][NextAnalyze]_vars

(***************************************************************************)
(* tests/test_crystal_calculator.py: test_different_calculation_types      *)
(***************************************************************************)
\* The list `types` of the test.
TestTypes ==
    <<"currency", "human_life", "natural_resource", "crypto", "art",
      "radioactive_potato">>

\* The configurations the comparison is run with: the default one with each
\* small number of steps, and the default itself.
FixtureConfigs ==
    {[DefaultConfig EXCEPT !.evolution_steps = n] : n \in 0..MaxSteps}
    \cup {DefaultConfig}

\* The test starts: one calculator, one base value, an empty dict.
TestBegin ==
    /\ pc = "idle"
    /\ ~fixture.active
    /\ \E value \in Values, config \in FixtureConfigs :
           fixture' = [active |-> TRUE, value |-> value, config |-> config]
    /\ results' = <<>>
    /\ UNCHANGED <<simvars, osc, extvars, analysis, apivars>>

\* The loop of the test calls the calculator with the next type.
TestCall ==
    /\ pc = "idle"
    /\ fixture.active
    /\ Len(results) < Len(TestTypes)
    /\ SimEnter("test_types", fixture.value, TestTypes[Len(results) + 1],
                fixture.config)
    /\ UNCHANGED <<results, apivars>>

\* results[calc_type] = result['qdt_value']; an exception of the call ends
\* the test.
TestRecord ==
    /\ pc = "done"
    /\ caller = "test_types"
    /\ IF outcome.kind = "result"
       THEN /\ results' = Append(results, outcome.qdt_value)
            /\ UNCHANGED fixture
       ELSE /\ results' = <<>>
            /\ fixture' = NoFixture
    /\ DropCall
    /\ UNCHANGED <<osc, extvars, analysis, apivars>>

\* The test ends after its assertion on the six values.
TestEnd ==
    /\ pc = "idle"
    /\ fixture.active
    /\ Len(results) = Len(TestTypes)
    /\ fixture' = NoFixture
    /\ results' = <<>>
    /\ UNCHANGED <<simvars, osc, extvars, analysis, apivars>>

NextTypes == TestBegin \/ TestCall \/ SimStep \/ SimFinish \/ TestRecord \/ TestEnd

SpecTypes == Init /\ [][NextTypes]_vars

(***************************************************************************)
(* time_crystal.py: calls of time_crystal_oscillation                      *)
(***************************************************************************)
\* The number of sample times, an eighth apart.
MaxOscSample == 8

OscTimes == {i * (Scale \div 8) : i \in 0..MaxOscSample}

\* None (not passed), 0, 1.0, the tests' 2.0 and the default frequency.
OscFrequencies == {None, 0, Scale, 2 * Scale, CRYSTAL_FREQUENCY}

\* None (not passed), 0, the tests' 0.2 and 1.0.
OscAmplitudes == {None, 0, 2 * (Scale \div 10), Scale}

\* A caller evaluates time_crystal_oscillation(t, frequency, amplitude).
Oscillate ==
    /\ \E t \in OscTimes, frequency \in OscFrequencies, amplitude \in OscAmplitudes :
           osc' = [t |-> t, frequency |-> frequency, amplitude |-> amplitude,
                   value |-> time_crystal_oscillation(t, frequency, amplitude)]
    /\ UNCHANGED <<simvars, testvars, analysis, apivars, extvars>>

NextOsc == Oscillate

SpecOsc == Init /\ [][NextOsc]_vars

\* np.linspace(start, stop, num)[i]: start + i * step with
\* step = (stop - start) / (num - 1), and the last sample set to stop.
linspace(start, stop, num, i) ==
    IF i = num - 1 THEN stop ELSE start + i * ((stop - start) \div (num - 1))

ModulationFirstStep == 0

ModulationLastStep == 100

ModulationSamples == 1000

\* test_time_crystal_modulation: steps = np.linspace(0, 100, 1000), and the
\* comprehension calls time_crystal_modulation on the next step.
ModulationSample ==
    /\ Len(modulations) < ModulationSamples
    /\ modulations' =
           Append(modulations,
                  time_crystal_modulation(
                      linspace(ModulationFirstStep * Scale,
                               ModulationLastStep * Scale,
                               ModulationSamples, Len(modulations))))
    /\ UNCHANGED <<crystalrest, evolvars>>

\* The test ends after its assertions and its array is dropped.
ModulationEnd ==
    /\ Len(modulations) = ModulationSamples
    /\ modulations' = <<>>
    /\ UNCHANGED <<crystalrest, evolvars>>

NextModulation == ModulationSample \/ ModulationEnd

SpecModulation == Init /\ [][NextModulation]_vars

\* TimeCrystalOscillator.calculate_crystal_modulation(step)
calculate_crystal_modulation(step) ==
    Mul(Sin(DivInt(Mul(Mul(TWO_PI, step), CRYSTAL_FREQUENCY), 100)),
        Mul(CRYSTAL_AMPLITUDE, Exp(DivInt(Mul(-GAMMA_T, step), 100))))

\* coherence_factor = 1 + crystal_mod * LAMBDA
CoherenceFactor(crystal_mod) == Scale + Mul(crystal_mod, QDT_LAMBDA)

\* evolution_factor = (1 + 0.1 * (time_step % 2)) * coherence_factor
EvolutionFactor(time_step, crystal_mod) ==
    Mul(Scale + Mul(Scale \div 10, time_step % (2 * Scale)),
        CoherenceFactor(crystal_mod))

\* damping_factor = exp(-GAMMA_T * time_step / 1000)
DampingFactor(time_step) == Exp(DivInt(Mul(-GAMMA_T, time_step), 1000))

\* fields_output[key][i] *= evolution_factor * damping_factor
Evolved(x, time_step, crystal_mod) ==
    Mul(x, Mul(EvolutionFactor(time_step, crystal_mod), DampingFactor(time_step)))

\* The dict literals a test builds: a dict is the sequence of its items in
\* insertion order, each a key and the values of its list.
FieldLiterals ==
    { << [key |-> "field1", values |-> <<Scale, 2 * Scale, 3 * Scale>>],
         [key |-> "field2", values |-> <<Scale \div 2, 3 * (Scale \div 2),
                                        5 * (Scale \div 2)>>] >>,
      << [key |-> "field1", values |-> <<Scale, -Scale>>],
         [key |-> "field2", values |-> <<>>],
         [key |-> "field3", values |-> <<2 * Scale>>] >>,
      << [key |-> "field1", values |-> <<Scale>>] >> }

\* The time steps passed: the test's 1.0, an even one, a fraction, zero.
TimeSteps == {0, Scale \div 2, Scale, 2 * Scale}

\* Evaluating a dict literal allocates one new list per item: the dict holds
\* the identities, the heap the contents.
Allocated(literal) == [n \in 1..Len(literal) |-> literal[n].values]

DictOf(literal) == [n \in 1..Len(literal) |-> [key |-> literal[n].key, list |-> n]]

\* dict.copy(): a new dict with the same keys bound to the same list objects.
ShallowCopy(d) == [n \in 1..Len(d) |-> d[n]]

RECURSIVE NextElement(_, _, _, _)
\* The next position of the two nested for loops at or after item key,
\* index i: lists with no element left are passed over; key is
\* Len(d) + 1 when both loops are over.
NextElement(d, h, key, i) ==
    IF key > Len(d) THEN [key |-> key, i |-> 1]
    ELSE IF i <= Len(h[d[key].list]) THEN [key |-> key, i |-> i]
    ELSE NextElement(d, h, key + 1, 1)

EvolutionAt(ev, position) == [ev EXCEPT !.key = position.key, !.i = position.i]

\* The test builds fields and calls time_evolution_crystalized on
\* fields.copy() (test_time_evolution_crystalized) or on fields itself; the
\* call computes crystal_mod and enters its loops.
EvolveBegin ==
    /\ evolution.pc = "idle"
    /\ \E literal \in FieldLiterals, time_step \in TimeSteps, copied \in BOOLEAN :
           /\ heap' = Allocated(literal)
           /\ fields' = DictOf(literal)
           /\ evolution' =
                  EvolutionAt([NoEvolution EXCEPT
                                   !.pc = "loop",
                                   !.copied = copied,
                                   !.time_step = time_step,
                                   !.crystal_mod = calculate_crystal_modulation(time_step),
                                   !.fields_output =
                                       IF copied THEN ShallowCopy(DictOf(literal))
                                       ELSE DictOf(literal),
                                   !.created = literal],
                              NextElement(DictOf(literal), Allocated(literal), 1, 1))
    /\ UNCHANGED <<crystalrest, modulations>>

\* One pass of the inner loop: the element is multiplied in place, in the
\* list object the dict fields_output refers to.
EvolveElement ==
    /\ evolution.pc = "loop"
    /\ evolution.key <= Len(evolution.fields_output)
    /\ heap' = [heap EXCEPT ![evolution.fields_output[evolution.key].list][evolution.i] =
                    Evolved(@, evolution.time_step, evolution.crystal_mod)]
    /\ evolution' = EvolutionAt(evolution,
                                NextElement(evolution.fields_output, heap,
                                            evolution.key, evolution.i + 1))
    /\ UNCHANGED <<fields, crystalrest, modulations>>

\* return fields_output
EvolveReturn ==
    /\ evolution.pc = "loop"
    /\ evolution.key > Len(evolution.fields_output)
    /\ evolution' = [evolution EXCEPT !.pc = "returned",
                                      !.evolved_fields = evolution.fields_output]
    /\ UNCHANGED <<heap, fields, crystalrest, modulations>>

\* The test ends and its objects are dropped.
EvolveEnd ==
    /\ evolution.pc = "returned"
    /\ heap' = <<>>
    /\ fields' = <<>>
    /\ evolution' = NoEvolution
    /\ UNCHANGED <<crystalrest, modulations>>

NextEvolution == EvolveBegin \/ EvolveElement \/ EvolveReturn \/ EvolveEnd

SpecEvolution == Init /\ [][NextEvolution]_vars

(***************************************************************************)
(* CrystalCalculator._get_prime, one iteration of its while loop a step    *)
(***************************************************************************)
MaxPrimeIndex == 12

\* _get_prime(n): primes = [], num = 2
PrimeCall ==
    /\ sieve.pc = "idle"
    /\ \E n \in 0..MaxPrimeIndex :
           sieve' = [pc |-> "loop", n |-> n, primes |-> <<>>, num |-> 2,
                     result |-> 0]
    /\ UNCHANGED <<sieverest>>

\* One pass of `while len(primes) <= n`: num is appended when no prime
\* found so far divides it, and in either case incremented.
PrimeIterate ==
    /\ sieve.pc = "loop"
    /\ Len(sieve.primes) <= sieve.n
    /\ sieve' = [sieve EXCEPT
                     !.primes = IF \A i \in 1..Len(@) : sieve.num % @[i] # 0
                                THEN Append(@, sieve.num) ELSE @,
                     !.num = @ + 1]
    /\ UNCHANGED <<sieverest>>

\* return primes[-1]
PrimeReturn ==
    /\ sieve.pc = "loop"
    /\ Len(sieve.primes) > sieve.n
    /\ sieve' = [sieve EXCEPT !.pc = "returned",
                              !.result = sieve.primes[Len(sieve.primes)]]
    /\ UNCHANGED <<sieverest>>

\* The caller has taken the prime.
PrimeEnd ==
    /\ sieve.pc = "returned"
    /\ sieve' = NoSieve
    /\ UNCHANGED <<sieverest>>

NextPrime == PrimeCall \/ PrimeIterate \/ PrimeReturn \/ PrimeEnd

\* The loop runs in one thread that nothing stops: a pass that can be made
\* is made.
SpecPrime ==
    Init /\ [][NextPrime]_vars /\ WF_vars(PrimeIterate) /\ WF_vars(PrimeReturn)

(***************************************************************************)
(* qdt_security.py                                                         *)
(***************************************************************************)
\* (a + b) % m for 0 <= a, b < m, without leaving 32 bits (Python's integers
\* are unbounded; the remainders are the same).
AddMod(a, b, m) == IF a >= m - b THEN a - (m - b) ELSE a + b

RECURSIVE MulMod(_, _, _)
\* (a * b) % m for 0 <= a, b < m, by doubling.
MulMod(a, b, m) ==
    IF b = 0 THEN 0
    ELSE LET half == MulMod(a, b \div 2, m)
         IN  IF b % 2 = 1 THEN AddMod(AddMod(half, half, m), a, m)
             ELSE AddMod(half, half, m)

\* M = (1 << p) - 1
Mersenne(p) == IF p = 0 THEN 0 ELSE (2^(p - 1) - 1) + 2^(p - 1)

\* ((s * s) - 2) % M for M > 2; Python's % is never negative for M > 0, so
\* subtracting 2 is adding M - 2.
LucasSquare(s, M) == AddMod(MulMod(s % M, s % M, M), M - 2, M)

\* range(p - 1): one pass more than the test needs.
LucasRoundsOneMore(p) == p - 1

\* range(p - 2)
LucasRounds(p) == p - 2

\* test_cases of verify_algorithm
test_cases == <<3, 5, 7, 13, 17, 19, 31>>

\* The exponents passed to lucas_lehmer_small: 2 up to the largest of the
\* test cases.
Exponents == 2..test_cases[Len(test_cases)]

\* lucas_lehmer_small(p) up to the loop: p == 2 returns True at once.
LucasEntered(from, p) ==
    IF p = 2
    THEN [NoLucas EXCEPT !.pc = "done", !.caller = from, !.p = p,
                         !.result = TRUE]
    ELSE [NoLucas EXCEPT !.pc = "loop", !.caller = from, !.p = p, !.s = 4,
                         !.M = Mersenne(p)]

\* A caller other than verify_algorithm calls lucas_lehmer_small(p).
LucasCall ==
    /\ lucas.pc = "idle"
    /\ verification.pc \in {"idle", "returned"}
    /\ \E p \in Exponents : lucas' = LucasEntered("direct", p)
    /\ UNCHANGED <<verification, lucasrest>>

\* One pass of the loop: s = ((s * s) - 2) % M
LucasStep ==
    /\ lucas.pc = "loop"
    /\ lucas.n < LucasRounds(lucas.p)
    /\ lucas' = [lucas EXCEPT !.s = LucasSquare(@, lucas.M), !.n = @ + 1]
    /\ UNCHANGED <<verification, lucasrest>>

\* return s == 0
LucasReturn ==
    /\ lucas.pc = "loop"
    /\ lucas.n >= LucasRounds(lucas.p)
    /\ lucas' = [lucas EXCEPT !.pc = "done", !.result = (lucas.s = 0)]
    /\ UNCHANGED <<verification, lucasrest>>

\* The direct caller has taken the result.
LucasEnd ==
    /\ lucas.pc = "done"
    /\ lucas.caller = "direct"
    /\ lucas' = NoLucas
    /\ UNCHANGED <<verification, lucasrest>>

\* verify_algorithm(): results = []
VerifyBegin ==
    /\ verification.pc = "idle"
    /\ lucas.pc = "idle"
    /\ verification' = [pc |-> "loop", next |-> 1, results |-> <<>>]
    /\ UNCHANGED <<lucas, lucasrest>>

\* for p in test_cases: is_prime = lucas_lehmer_small(p)
VerifyCall ==
    /\ verification.pc = "loop"
    /\ verification.next <= Len(test_cases)
    /\ lucas.pc = "idle"
    /\ lucas' = LucasEntered("verify", test_cases[verification.next])
    /\ UNCHANGED <<verification, lucasrest>>

\* f"M_{p}: {'PRIME' if is_prime else 'COMPOSITE'}", as the parts of the
\* formatted string.
VerifyEntry(p, is_prime) ==
    <<"M_", ToString(p), ": ", IF is_prime THEN "PRIME" ELSE "COMPOSITE">>

\* results.append(...) with the result of the call
VerifyRecord ==
    /\ verification.pc = "loop"
    /\ lucas.pc = "done"
    /\ lucas.caller = "verify"
    /\ verification' = [verification EXCEPT
                            !.next = @ + 1,
                            !.results = Append(@, VerifyEntry(lucas.p, lucas.result))]
    /\ lucas' = NoLucas
    /\ UNCHANGED <<lucasrest>>

\* return results
VerifyReturn ==
    /\ verification.pc = "loop"
    /\ verification.next > Len(test_cases)
    /\ verification' = [verification EXCEPT !.pc = "returned"]
    /\ UNCHANGED <<lucas, lucasrest>>

\* The caller has taken the list.
VerifyEnd ==
    /\ verification.pc = "returned"
    /\ lucas.pc = "idle"
    /\ verification' = NoVerification
    /\ UNCHANGED <<lucas, lucasrest>>

NextLucas ==
    \/ LucasCall \/ LucasStep \/ LucasReturn \/ LucasEnd
    \/ VerifyBegin \/ VerifyCall \/ VerifyRecord \/ VerifyReturn \/ VerifyEnd

SpecLucas == Init /\ [][NextLucas]_vars

\* QDTSecurityCore: LAMBDA, GAMMA_D, ETA and PRIME_SEED
CORE_LAMBDA == 867000

CORE_GAMMA_D == 449700

CORE_ETA == 520000

PRIME_SEED == 244191827

\* QDTAccessControl.access_levels
access_levels ==
    [PUBLIC |-> 0, RESEARCH |-> 1, VALIDATED |-> 2, PRIME_HUNTER |-> 3,
     GUARDIAN |-> 4]

\* if auth_score > 0.3
AuthThreshold == 3 * (Scale \div 10)

\* The user key of test_access_control's second call.
TestUserKey == 12345

\* The strings passed are decimal numerals, given by their value, or a
\* string float() does not parse.  The challenges: all millions up to
\* MaxChallenge of them, and the prime seed.
MaxChallenge == 40

UserKeys == {0, TestUserKey, NotANumber}

Challenges == {c * 1000000 : c \in 0..MaxChallenge} \cup {PRIME_SEED, NotANumber}

\* t = float(challenge) / 10000000, to six decimals.
ChallengeTime(challenge) == challenge \div 10

\* auth_score = abs(LAMBDA * exp(-GAMMA_D * t) * sin(2 * pi * ETA * t))
AuthScore(t) ==
    Abs(Mul(Mul(CORE_LAMBDA, Exp(Mul(-CORE_GAMMA_D, t))),
            Sin(Mul(Mul(TWO_PI, CORE_ETA), t))))

\* PRIME_HUNTER above the threshold, PUBLIC otherwise.
LevelOf(auth_score) ==
    IF auth_score > AuthThreshold THEN access_levels.PRIME_HUNTER
    ELSE access_levels.PUBLIC

\* The user key enters the time of the score.
authenticate_userByKey(user_key, challenge) ==
    IF user_key = NotANumber \/ challenge = NotANumber THEN Raised("ValueError")
    ELSE [kind |-> "level",
          level |-> LevelOf(AuthScore(ChallengeTime(challenge) + user_key * 1000))]

\* authenticate_user(user_key, challenge): float() raises ValueError on a
\* string that is no number, the user key's first.
authenticate_user(user_key, challenge) ==
    IF user_key = NotANumber \/ challenge = NotANumber THEN Raised("ValueError")
    ELSE [kind |-> "level", level |-> LevelOf(AuthScore(ChallengeTime(challenge)))]

\* A caller authenticates.
Authenticate ==
    /\ auth.pc = "idle"
    /\ \E user_key \in UserKeys, challenge \in Challenges :
           auth' = [pc |-> "done", user_key |-> user_key, challenge |-> challenge,
                    outcome |-> authenticate_user(user_key, challenge)]
    /\ UNCHANGED <<authrest>>

\* The caller has taken the level.
AuthEnd ==
    /\ auth.pc = "done"
    /\ auth' = NoAuthentication
    /\ UNCHANGED <<authrest>>

NextAuth == Authenticate \/ AuthEnd

SpecAuth == Init /\ [][NextAuth]_vars

(***************************************************************************)
(* security/monitoring.py and api/middleware/security.py: the monitor's    *)
(* counters of failed authentications, kept in redis, and the decorator    *)
(* require_auth.  A redis command is atomic.  A counter redis does not     *)
(* hold has value 0; armed says that the key carries a time to live.       *)
(***************************************************************************)
\* alert_thresholds['failed_auth_attempts']
FailedAuthThreshold == 5

\* The model follows a counter up to this value.
MaxFailures == 6

\* INCR key: one more, from 0 for a key redis does not hold; the time to
\* live of the key stays as it is.
RedisIncr(store, key) == [store EXCEPT ![key].value = @ + 1]

\* EXPIRE key 3600: arms the time to live of a key redis holds.
RedisExpire(store, key) ==
    IF store[key].value = 0 THEN store ELSE [store EXCEPT ![key].armed = TRUE]

\* The key stays.
RedisDeleteKept(store, key) == store

\* DEL key
RedisDelete(store, key) == [store EXCEPT ![key] = NoCounter]

\* The counters after track_auth_attempt(user_key, success).
TrackedAttempts(store, user_key, success) ==
    IF success THEN RedisDelete(store, user_key)
    ELSE RedisExpire(RedisIncr(store, user_key), user_key)

\* The events track_auth_attempt(user_key, success) logs.
TrackedEvents(store, user_key, success) ==
    IF ~success /\ RedisIncr(store, user_key)[user_key].value >= FailedAuthThreshold
    THEN <<"suspicious_auth_attempts">>
    ELSE <<>>

\* An hour after it was armed, redis drops the key.
CounterExpires ==
    /\ \E key \in TrackedKeys :
           /\ auth_attempts[key].armed
           /\ auth_attempts' = RedisDelete(auth_attempts, key)
           /\ failures' = [failures EXCEPT ![key] = 0]
    /\ UNCHANGED <<guard, trackers, middlewarerest>>

\* A thread calls track_auth_attempt(user_key, success).
TrackCall(i) ==
    /\ trackers[i].pc = "idle"
    /\ guard.pc = "idle"
    /\ \A key \in TrackedKeys : auth_attempts[key].value < MaxFailures
    /\ \E user_key \in TrackedKeys, success \in BOOLEAN :
           trackers' = [trackers EXCEPT ![i] =
                            [NoTracker EXCEPT !.pc = "called", !.user_key = user_key,
                                              !.success = success]]
    /\ UNCHANGED <<auth_attempts, failures, guard, middlewarerest>>

\* attempts = self.redis.incr(key)
TrackIncr(i) ==
    /\ trackers[i].pc = "called"
    /\ ~trackers[i].success
    /\ auth_attempts' = RedisIncr(auth_attempts, trackers[i].user_key)
    /\ failures' = [failures EXCEPT ![trackers[i].user_key] = @ + 1]
    /\ trackers' = [trackers EXCEPT ![i].pc = "incremented",
                        ![i].attempts = auth_attempts'[trackers[i].user_key].value,
                        ![i].counted = failures'[trackers[i].user_key]]
    /\ UNCHANGED <<guard, middlewarerest>>

\* self.redis.expire(key, 3600)
TrackExpire(i) ==
    /\ trackers[i].pc = "incremented"
    /\ auth_attempts' = RedisExpire(auth_attempts, trackers[i].user_key)
    /\ trackers' = [trackers EXCEPT ![i].pc = "expired"]
    /\ UNCHANGED <<failures, guard, middlewarerest>>

\* if attempts >= self.alert_thresholds['failed_auth_attempts']: the event.
TrackThreshold(i) ==
    /\ trackers[i].pc = "expired"
    /\ trackers' = [trackers EXCEPT ![i].pc = "returned",
                        ![i].logged =
                            IF trackers[i].attempts >= FailedAuthThreshold
                            THEN <<"suspicious_auth_attempts">> ELSE <<>>]
    /\ UNCHANGED <<auth_attempts, failures, guard, middlewarerest>>

\* else: self.redis.delete(key)
TrackDelete(i) ==
    /\ trackers[i].pc = "called"
    /\ trackers[i].success
    /\ auth_attempts' = RedisDelete(auth_attempts, trackers[i].user_key)
    /\ failures' = [failures EXCEPT ![trackers[i].user_key] = 0]
    /\ trackers' = [trackers EXCEPT ![i].pc = "returned"]
    /\ UNCHANGED <<guard, middlewarerest>>

\* The call returns.
TrackReturn(i) ==
    /\ trackers[i].pc = "returned"
    /\ trackers' = [trackers EXCEPT ![i] = NoTracker]
    /\ UNCHANGED <<auth_attempts, failures, guard, middlewarerest>>

NextTrack ==
    \/ \E i \in Trackers : TrackCall(i)
    \/ \E i \in Trackers : TrackIncr(i)
    \/ \E i \in Trackers : TrackExpire(i)
    \/ \E i \in Trackers : TrackThreshold(i)
    \/ \E i \in Trackers : TrackDelete(i)
    \/ \E i \in Trackers : TrackReturn(i)
    \/ CounterExpires

SpecTrack == Init /\ [][NextTrack]_vars

\* self.redis.ltrim('security_events', 0, 999)
LastKept == 999

\* The model follows the log up to this many events.
MaxLogged == 1003

\* LPUSH key value: the value becomes the head of the list.
RedisLpush(list, value) == <<value>> \o list

\* The last elements stay.
RedisLtrimTail(list, start, stop) ==
    SubSeq(list, Max(1, Len(list) - stop), Len(list) - start)

\* LTRIM key start stop: the elements of the indices start..stop, from 0, stay.
RedisLtrim(list, start, stop) == SubSeq(list, start + 1, Min(stop + 1, Len(list)))

\* A thread calls log_security_event and builds the event.
LogCall(i) ==
    /\ loggers[i] = "idle"
    /\ pushed + Cardinality({j \in Loggers : loggers[j] = "called"}) < MaxLogged
    /\ loggers' = [loggers EXCEPT ![i] = "called"]
    /\ UNCHANGED <<security_events, pushed, logrest>>

\* self.redis.lpush('security_events', str(event)); the event is numbered
\* by its place among the pushes.
LogPush(i) ==
    /\ loggers[i] = "called"
    /\ pushed' = pushed + 1
    /\ security_events' = RedisLpush(security_events, pushed')
    /\ loggers' = [loggers EXCEPT ![i] = "pushed"]
    /\ UNCHANGED <<logrest>>

\* self.redis.ltrim('security_events', 0, 999), and the call returns.
LogTrim(i) ==
    /\ loggers[i] = "pushed"
    /\ security_events' = RedisLtrim(security_events, 0, LastKept)
    /\ loggers' = [loggers EXCEPT ![i] = "idle"]
    /\ UNCHANGED <<pushed, logrest>>

NextLog ==
    \/ \E i \in Loggers : LogCall(i)
    \/ \E i \in Loggers : LogPush(i)
    \/ \E i \in Loggers : LogTrim(i)

SpecLog == Init /\ [][NextLog]_vars

\* The levels a route is decorated with.
RequiredLevels == {"PUBLIC", "PRIME_HUNTER", "GUARDIAN"}

\* The Authorization header: absent or empty, or its words after the first,
\* "Bearer" or "Bearer <user_key>".
AuthHeaders ==
    {[present |-> FALSE, credentials |-> <<>>],
     [present |-> TRUE, credentials |-> <<>>]}
        \cup {[present |-> TRUE, credentials |-> <<user_key>>] : user_key \in UserKeys}

\* The X-Challenge header: absent, the seed, a number that passes, a string
\* that is no number.
GuardChallenges == {None, PRIME_SEED, 4000000, NotANumber}

\* request.headers.get('X-Challenge', '0')
ChallengeHeader(challenge) == IF challenge = None THEN 0 ELSE challenge

\* except Exception as e: the event auth_error and the answer 401.
GuardCaught(g, e) ==
    [g EXCEPT !.pc = "done", !.logged = Append(@, "auth_error"), !.status = 401,
              !.error = e]

\* The request after authenticate_user has answered.
GuardAuthenticated(g, user_key, answer) ==
    IF answer.kind = "error" THEN GuardCaught(g, answer.error)
    ELSE [g EXCEPT !.pc = "authenticated", !.user_key = user_key,
                   !.access_level = answer.level]

\* decorated_function up to authenticate_user: the header, its second word,
\* the challenge, the level.
GuardEntered(g) ==
    IF ~g.auth_header.present
    THEN [g EXCEPT !.pc = "done", !.logged = Append(@, "missing_auth_header"),
                   !.status = 401]
    ELSE IF Len(g.auth_header.credentials) < 1 THEN GuardCaught(g, "IndexError")
    ELSE GuardAuthenticated(g, g.auth_header.credentials[1],
             authenticate_user(g.auth_header.credentials[1],
                               ChallengeHeader(g.challenge)))

\* A request reaches a route decorated with require_auth(level).
GuardRequest ==
    /\ guard.pc = "idle"
    /\ \A i \in Trackers : trackers[i].pc = "idle"
    /\ \A key \in TrackedKeys : auth_attempts[key].value < MaxFailures
    /\ \E level \in RequiredLevels, auth_header \in AuthHeaders,
          challenge \in GuardChallenges :
           guard' = GuardEntered([NoGuard EXCEPT !.level = level,
                                      !.auth_header = auth_header,
                                      !.challenge = challenge])
    /\ UNCHANGED <<auth_attempts, trackvars, middlewarerest>>

\* Every level suffices.
GuardSufficientAlways(g) == g.access_level >= access_levels.PUBLIC

\* access_level >= access_control.access_levels[level]
GuardSufficient(g) == g.access_level >= access_levels[g.level]

\* security_monitor.track_auth_attempt(user_key, ...)
GuardTrack ==
    /\ guard.pc = "authenticated"
    /\ auth_attempts' =
           TrackedAttempts(auth_attempts, guard.user_key, GuardSufficient(guard))
    /\ guard' = [guard EXCEPT !.pc = "tracked", !.tracked = TRUE,
                     !.logged = @ \o TrackedEvents(auth_attempts, guard.user_key,
                                                   GuardSufficient(guard))]
    /\ failures' = [failures EXCEPT ![guard.user_key] =
                        IF GuardSufficient(guard) THEN 0 ELSE @ + 1]
    /\ UNCHANGED <<trackers, middlewarerest>>

\* The alert and the answer 403, or the call of the handler.
GuardDecide ==
    /\ guard.pc = "tracked"
    /\ guard' = IF GuardSufficient(guard)
                THEN [guard EXCEPT !.pc = "handler", !.invoked = TRUE]
                ELSE [guard EXCEPT !.pc = "done",
                          !.logged = Append(@, "security_alert"), !.status = 403]
    /\ UNCHANGED <<auth_attempts, trackvars, middlewarerest>>

\* The handler answers.
GuardHandlerReturns ==
    /\ guard.pc = "handler"
    /\ guard' = [guard EXCEPT !.pc = "done", !.status = 200]
    /\ UNCHANGED <<auth_attempts, trackvars, middlewarerest>>

\* The handler raises, inside the try of decorated_function.
GuardHandlerRaises ==
    /\ guard.pc = "handler"
    /\ guard' = GuardCaught(guard, "HandlerError")
    /\ UNCHANGED <<auth_attempts, trackvars, middlewarerest>>

\* The answer has left.
GuardEnd ==
    /\ guard.pc = "done"
    /\ guard' = NoGuard
    /\ UNCHANGED <<auth_attempts, trackvars, middlewarerest>>

NextGuard ==
    \/ GuardRequest \/ GuardTrack \/ GuardDecide \/ GuardHandlerReturns
    \/ GuardHandlerRaises \/ GuardEnd \/ CounterExpires

SpecGuard == Init /\ [][NextGuard]_vars

(***************************************************************************)
(* security/alerting.py: AlertSender's history of delivered alerts.  An    *)
(* entry is numbered by its place among the deliveries that succeeded.     *)
(* The SMTP server and the web services answer as they please.             *)
(***************************************************************************)
\* self._max_history = 1000
MaxHistory == 1000

\* The model follows the history up to this many deliveries.
MaxDelivered == 1002

\* list[start:], by Python's rules: a negative start counts from the end,
\* and either is clipped to the list.
SliceFrom(list, start) ==
    SubSeq(list,
           (IF start < 0 THEN Max(start + Len(list), 0) ELSE Min(start, Len(list))) + 1,
           Len(list))

\* _record_alert: append, and pop(0) when the list is longer than the limit.
RecordedAlerts(history, entry) ==
    IF Len(history) + 1 > MaxHistory THEN Tail(Append(history, entry))
    ELSE Append(history, entry)

\* self._alert_history[-limit:]
get_alert_history(history, limit) == SliceFrom(history, -limit)

\* What a channel does with an alert: "delivered", "refused" (another status
\* code), "raised", or, without its configuration, "unconfigured".
ChannelOutcomes(channel) ==
    IF channel = "email" THEN {"delivered", "raised"}
    ELSE {"delivered", "refused", "raised", "unconfigured"}

\* The limits asked of get_alert_history.
HistoryLimits == {0, 1, 2, 100, MaxHistory}

\* The state after a send through one channel with the given outcome.
Sent(channel, answer) ==
    /\ alerting.pc = "idle"
    /\ delivered < MaxDelivered
    /\ answer \in ChannelOutcomes(channel)
    /\ alerting' = [NoAlerting EXCEPT !.pc = "sent", !.channel = channel,
                                      !.outcome = answer]
    /\ delivered' = IF answer = "delivered" THEN delivered + 1 ELSE delivered
    /\ alert_history' = IF answer = "delivered"
                        THEN RecordedAlerts(alert_history, delivered')
                        ELSE alert_history
    /\ UNCHANGED <<alertrest>>

\* send_email_alert: the record after server.send_message, none when
\* anything before it raises.
SendEmailAlert == \E answer \in {"delivered", "raised"} : Sent("email", answer)

\* send_slack_alert: the record when the webhook answers 200.
SendSlackAlert ==
    \E answer \in {"delivered", "refused", "raised", "unconfigured"} :
        Sent("slack", answer)

\* send_pagerduty_alert: the record when the service answers 201.
SendPagerdutyAlert ==
    \E answer \in {"delivered", "refused", "raised", "unconfigured"} :
        Sent("pagerduty", answer)

\* get_alert_history(limit)
GetAlertHistory ==
    /\ alerting.pc = "idle"
    /\ \E limit \in HistoryLimits :
           alerting' = [NoAlerting EXCEPT !.pc = "read", !.limit = limit,
                            !.returned = get_alert_history(alert_history, limit)]
    /\ UNCHANGED <<alert_history, delivered, alertrest>>

\* The caller has taken the answer.
AlertEnd ==
    /\ alerting.pc # "idle"
    /\ alerting' = NoAlerting
    /\ UNCHANGED <<alert_history, delivered, alertrest>>

NextAlert ==
    \/ SendEmailAlert \/ SendSlackAlert \/ SendPagerdutyAlert
    \/ GetAlertHistory \/ AlertEnd

SpecAlert == Init /\ [][NextAlert]_vars

(***************************************************************************)
(* api/crystal_calculator_api.py: the handlers of /api/calculate,          *)
(* /api/batch and /api/ask.  A JSON body is a function from its field      *)
(* names.  In a field read as a number, a number is itself, null is None   *)
(* and a string that is no number is NotANumber; the value of another      *)
(* field carries its JSON type.  One request is served at a time.          *)
(***************************************************************************)
JsonNull == [type |-> "null"]

JsonList(items) == [type |-> "list", items |-> items]

JsonString(text) == [type |-> "str", text |-> text]

\* "Evolution steps must be between 10 and 1000"
MinApiSteps == 10

MaxApiSteps == 1000

\* data.get('evolution_steps', 100)
ApiDefaultSteps == 100

\* The window and the depth /api/calculate configures.
ApiWindow == 10

ApiDepth == 5

\* "Maximum 10 calculations per batch"
MaxBatchSize == 10

\* "Question must be at least 3 characters long"
MinQuestionLength == 3

valid_types == {"currency", "energy", "probability"}

ErrorResponse(status, error) == [status |-> status, error |-> error]

\* validate_request_data: the error message, "" for valid data.
validate_request_data(data, required_fields) ==
    IF DOMAIN data = {} THEN "Invalid request data"
    ELSE IF required_fields \ DOMAIN data # {} THEN "Missing required fields"
    ELSE ""

\* The check of the steps without its lower limit.
StepsInRangeNoMinimum(evolution_steps) == ~(evolution_steps > MaxApiSteps)

\* The negation of `evolution_steps < 10 or evolution_steps > 1000`.
StepsInRange(evolution_steps) ==
    ~(evolution_steps < MinApiSteps \/ evolution_steps > MaxApiSteps)

\* The evolution_steps field, before int().
RequestedSteps(data) ==
    IF "evolution_steps" \in DOMAIN data THEN data.evolution_steps ELSE ApiDefaultSteps

\* calculate up to the simulation: the response of the first check that
\* fails, NoResponse when none does.  float() and int() raise TypeError on
\* null (caught by `except Exception`) and ValueError on a string that is
\* no number (caught by `except ValueError`).
CalculateChecks(data) ==
    IF validate_request_data(data, {"value", "calculation_type"}) # ""
    THEN ErrorResponse(400, validate_request_data(data, {"value", "calculation_type"}))
    ELSE IF data.value = None
    THEN ErrorResponse(500, "Failed to process calculation")
    ELSE IF data.value = NotANumber
    THEN ErrorResponse(400, "Invalid input")
    ELSE IF RequestedSteps(data) = None
    THEN ErrorResponse(500, "Failed to process calculation")
    ELSE IF RequestedSteps(data) = NotANumber
    THEN ErrorResponse(400, "Invalid input")
    ELSE IF ~StepsInRange(RequestedSteps(data))
    THEN ErrorResponse(400, "Evolution steps must be between 10 and 1000")
    ELSE IF data.calculation_type \notin valid_types
    THEN ErrorResponse(400, "Invalid calculation type")
    ELSE IF data.value <= 0
    THEN ErrorResponse(400, "Value must be greater than 0")
    ELSE NoResponse

ApiConfig(evolution_steps) ==
    [evolution_steps |-> evolution_steps, stability_window |-> ApiWindow,
     resonance_depth |-> ApiDepth]

\* The keys calculate reads from result['time_series'] and from result.
RenderedSeries ==
    {"void_energy", "filament_energy", "emergence_energy", "crystal_phase",
     "resonance"}

RenderedFields ==
    {"void_energy", "filament_energy", "emergence_energy", "crystal_phase",
     "resonance", "convergence_metrics"}

\* The response dict of calculate.
CalculatePayload(result) ==
    [status           |-> 200,
     void_energy      |-> result.void_energy,
     filament_energy  |-> result.filament_energy,
     emergence_energy |-> result.emergence_energy,
     crystal_phase    |-> result.crystal_phase,
     resonance        |-> result.resonance,
     convergence_metrics |->
         [stability_score  |-> result.convergence_metrics.stability_score,
          phase_coherence  |-> result.convergence_metrics.phase_coherence,
          convergence_rate |-> result.convergence_metrics.convergence_rate],
     time_series |->
         [void_energy      |-> result.time_series.void_energy,
          filament_energy  |-> result.time_series.filament_energy,
          emergence_energy |-> result.time_series.emergence_energy,
          crystal_phase    |-> result.time_series.crystal_phase,
          resonance        |-> result.time_series.resonance,
          steps |-> [i \in 1..Len(result.time_series.void_energy) |-> i]]]

\* calculate after the simulation: an exception of the simulation or a key
\* the result does not have (KeyError) ends in the except clauses.
RenderCalculate(o) ==
    IF o.kind = "error"
    THEN IF o.error = "ValueError" THEN ErrorResponse(400, "Invalid input")
         ELSE ErrorResponse(500, "Failed to process calculation")
    ELSE IF ~(RenderedSeries \subseteq DOMAIN o.time_series)
    THEN ErrorResponse(500, "Failed to process calculation")
    ELSE IF ~(RenderedFields \subseteq DOMAIN o)
    THEN ErrorResponse(500, "Failed to process calculation")
    ELSE CalculatePayload(o)

\* The bodies sent to /api/calculate.
ApiValues == {None, NotANumber, -Scale, 0, Scale}

ApiTypes == {"currency", "energy", "human_life", "gold"}

ApiSteps == {None, NotANumber, MinApiSteps - 1, MinApiSteps, MaxApiSteps,
             MaxApiSteps + 1}

CalculateBody(present, value, calculation_type, evolution_steps) ==
    [f \in present |->
        CASE f = "value" -> value
          [] f = "calculation_type" -> calculation_type
          [] OTHER -> evolution_steps]

CalculateBodies ==
    {CalculateBody(present, value, calculation_type, evolution_steps) :
        present \in SUBSET {"value", "calculation_type", "evolution_steps"},
        value \in ApiValues, calculation_type \in ApiTypes,
        evolution_steps \in ApiSteps}

\* No request is being served.
Ready == pc = "idle" /\ (request.endpoint = "none" \/ response.status # 0)

\* POST /api/calculate, up to the response of a failed check or to the
\* entry of the simulation.
ApiCalculate ==
    /\ Ready
    /\ \E data \in CalculateBodies :
           /\ request' = [endpoint |-> "calculate", data |-> data]
           /\ response' = CalculateChecks(data)
           /\ IF CalculateChecks(data).status # 0
              THEN UNCHANGED <<simvars, fixture, osc, extvars, analysis>>
              ELSE SimEnter("calculate", data.value, data.calculation_type,
                            ApiConfig(RequestedSteps(data)))
    /\ UNCHANGED <<results, batch_results>>

\* POST /api/calculate, from the return of the simulation.
ApiCalculateRespond ==
    /\ pc = "done"
    /\ caller = "calculate"
    /\ response' = RenderCalculate(outcome)
    /\ DropCall
    /\ UNCHANGED <<request, batch_results, testvars, osc, extvars, analysis>>

\* The checks without the limit on the length.
BatchChecksAnyLength(data) ==
    IF validate_request_data(data, {"calculations"}) # ""
    THEN ErrorResponse(400, validate_request_data(data, {"calculations"}))
    ELSE IF data.calculations.type # "list"
    THEN ErrorResponse(400, "Calculations must be a list")
    ELSE NoResponse

\* batch_calculate before its loop.
BatchChecks(data) ==
    IF validate_request_data(data, {"calculations"}) # ""
    THEN ErrorResponse(400, validate_request_data(data, {"calculations"}))
    ELSE IF data.calculations.type # "list"
    THEN ErrorResponse(400, "Calculations must be a list")
    ELSE IF Len(data.calculations.items) > MaxBatchSize
    THEN ErrorResponse(400, "Maximum 10 calculations per batch")
    ELSE NoResponse

\* What the loop of batch_calculate appends for an entry it does not
\* simulate: the message of the validation or of the exception of float();
\* "" for an entry it simulates.
EntryError(calc) ==
    IF validate_request_data(calc, {"value", "calculation_type"}) # ""
    THEN validate_request_data(calc, {"value", "calculation_type"})
    ELSE IF calc.value = None THEN "TypeError"
    ELSE IF calc.value = NotANumber THEN "ValueError"
    ELSE ""

\* The entries of the batches: a valid one, one with a value and a type
\* that /api/calculate refuses, one with null for a value, one without a
\* value.
BatchEntries ==
    {[value |-> Scale, calculation_type |-> "currency"],
     [value |-> -Scale, calculation_type |-> "human_life"],
     [value |-> None, calculation_type |-> "currency"],
     [calculation_type |-> "currency"]}

\* The number of entries of the batches below the limit.
MaxBatch == 2

BatchLists ==
    UNION {[1..n -> BatchEntries] : n \in 0..MaxBatch}
    \cup {[i \in 1..(MaxBatchSize + 1) |-> entry] : entry \in BatchEntries}

\* The bodies sent to /api/batch: without the field, with null, with a list.
BatchBodies ==
    {[other |-> 0], [calculations |-> JsonNull]}
    \cup {[calculations |-> JsonList(list)] : list \in BatchLists}

\* POST /api/batch up to the loop.
ApiBatch ==
    /\ Ready
    /\ \E data \in BatchBodies :
           /\ request' = [endpoint |-> "batch", data |-> data]
           /\ response' = BatchChecks(data)
    /\ batch_results' = <<>>
    /\ UNCHANGED <<simvars, testvars, osc, extvars, analysis>>

BatchInLoop == request.endpoint = "batch" /\ response.status = 0

\* One entry of `for calc in calculations` up to the continue, the except
\* clause or the entry of the simulation with the default configuration.
BatchEntry ==
    /\ pc = "idle"
    /\ BatchInLoop
    /\ Len(batch_results) < Len(request.data.calculations.items)
    /\ LET calc == request.data.calculations.items[Len(batch_results) + 1]
       IN  IF EntryError(calc) # ""
           THEN /\ batch_results' = Append(batch_results, [error |-> EntryError(calc)])
                /\ UNCHANGED <<simvars, fixture, osc, extvars, analysis>>
           ELSE /\ SimEnter("batch", calc.value, calc.calculation_type, DefaultConfig)
                /\ UNCHANGED batch_results
    /\ UNCHANGED <<request, response, results>>

\* results.append(result), or the except clause of the entry.
BatchRecord ==
    /\ pc = "done"
    /\ caller = "batch"
    /\ batch_results' = Append(batch_results,
                               IF outcome.kind = "error"
                               THEN [error |-> outcome.error] ELSE outcome)
    /\ DropCall
    /\ UNCHANGED <<request, response, testvars, osc, extvars, analysis>>

\* return jsonify({'results': results})
BatchRespond ==
    /\ pc = "idle"
    /\ BatchInLoop
    /\ Len(batch_results) = Len(request.data.calculations.items)
    /\ response' = [status |-> 200, results |-> batch_results]
    /\ batch_results' = <<>>
    /\ UNCHANGED <<request, simvars, testvars, osc, extvars, analysis>>

\* A question is the sequence of its characters.
RECURSIVE LStrip(_)
LStrip(text) == IF text # <<>> /\ Head(text) = " " THEN LStrip(Tail(text)) ELSE text

RECURSIVE RStrip(_)
RStrip(text) ==
    IF text # <<>> /\ text[Len(text)] = " "
    THEN RStrip(SubSeq(text, 1, Len(text) - 1)) ELSE text

\* str.strip
Strip(text) == RStrip(LStrip(text))

\* str.lower, on the capitals the questions have.
Lower(text) ==
    [i \in 1..Len(text) |->
        CASE text[i] = "C" -> "c" [] text[i] = "E" -> "e" [] text[i] = "S" -> "s"
          [] OTHER -> text[i]]

\* `word in text`
Contains(text, word) ==
    \E i \in 0..(Len(text) - Len(word)) : SubSeq(text, i + 1, i + Len(word)) = word

\* The format `:.2%`: hundredths of a percent, "nan" for nan.
Percent(x) == IF IsNaN(x) THEN "nan" ELSE (x + 50) \div 100

\* generate_qdt_response: the three parts of base_response and the sentence
\* that follows them, with the figures it quotes.
generate_qdt_response(question, calculation_result, convergence_analysis) ==
    [stability |->
         IF calculation_result.convergence_metrics.stability_score > 8 * (Scale \div 10)
         THEN "With high stability in the crystal phase, "
         ELSE IF calculation_result.convergence_metrics.stability_score > 5 * (Scale \div 10)
         THEN "Based on moderate crystal stability, "
         ELSE "Given the current quantum fluctuations, ",
     coherence |->
         IF calculation_result.convergence_metrics.phase_coherence > 7 * (Scale \div 10)
         THEN "and strong phase coherence, "
         ELSE "and varying phase relationships, ",
     resonance |->
         IF convergence_analysis.crystal_resonance_coupling > 6 * (Scale \div 10)
         THEN "the quantum resonance patterns suggest "
         ELSE "the emerging patterns indicate ",
     closing |->
         IF Contains(Lower(question), <<"c", "o", "n", "v", "e", "r", "g", "e", "n", "c", "e">>)
         THEN <<"a convergence rate of",
                Percent(calculation_result.convergence_metrics.convergence_rate)>>
         ELSE IF Contains(Lower(question), <<"s", "t", "a", "b", "i", "l", "i", "t", "y">>)
         THEN <<"a crystal stability score of",
                Percent(calculation_result.convergence_metrics.stability_score)>>
         ELSE IF Contains(Lower(question), <<"e", "n", "e", "r", "g", "y">>)
         THEN <<"void energy at", Percent(calculation_result.void_energy),
                "and filament energy at", Percent(calculation_result.filament_energy)>>
         ELSE <<"a complex interplay of quantum duality factors affecting the system.">>]

\* min(1.0, max(0.0, x)) of Python: a nan x compares false and 0.0 stays.
ClampUnit(x) == IF IsNaN(x) THEN 0 ELSE Min(Scale, Max(0, x))

FAbs(x) == IF IsNaN(x) THEN NaN ELSE Abs(x)

calculate_response_confidence(convergence_analysis) ==
    ClampUnit(FAdd(FAdd(FMul(convergence_analysis.convergence_stability, 4 * (Scale \div 10)),
                        FMul(FAbs(convergence_analysis.crystal_resonance_coupling),
                             3 * (Scale \div 10))),
                   FMul(FSub(Scale, FAbs(convergence_analysis.void_filament_coupling)),
                        3 * (Scale \div 10))))

\* ask before the simulation.
AskChecks(data) ==
    IF validate_request_data(data, {"question"}) # ""
    THEN ErrorResponse(400, validate_request_data(data, {"question"}))
    ELSE IF data.question.type # "str"
    THEN ErrorResponse(400, "Question must be at least 3 characters long")
    ELSE IF Len(Strip(data.question.text)) < MinQuestionLength
    THEN ErrorResponse(400, "Question must be at least 3 characters long")
    ELSE NoResponse

\* The response dict of ask, without its processing_time.
AskPayload(question, sample_result, convergence_analysis) ==
    [status     |-> 200,
     answer     |-> generate_qdt_response(question, sample_result, convergence_analysis),
     confidence |-> calculate_response_confidence(convergence_analysis),
     crystal_metrics |->
         [phase_coherence |-> sample_result.convergence_metrics.phase_coherence,
          stability       |-> sample_result.convergence_metrics.stability_score,
          resonance       |-> convergence_analysis.crystal_resonance_coupling]]

AskAnalyzed(question, sample_result, convergence_analysis) ==
    IF convergence_analysis.kind = "error"
    THEN ErrorResponse(500, "Failed to process question")
    ELSE AskPayload(question, sample_result, convergence_analysis)

\* ask after the simulation: the analysis of the sample's time series, then
\* the response; any exception ends in `except Exception`.
RenderAsk(question, o) ==
    IF o.kind = "error" THEN ErrorResponse(500, "Failed to process question")
    ELSE AskAnalyzed(question, o, analyze_convergence_path(o.time_series))

\* The bodies sent to /api/ask: without the field, null, "", "hi", " a ",
\* "why", "Energy", "stability", "convergence".
AskBodies ==
    {[other |-> 0], [question |-> JsonNull]}
    \cup {[question |-> JsonString(text)] :
              text \in {<<>>, <<"h", "i">>, <<" ", "a", " ">>, <<"w", "h", "y">>,
                        <<"E", "n", "e", "r", "g", "y">>,
                        <<"s", "t", "a", "b", "i", "l", "i", "t", "y">>,
                        <<"c", "o", "n", "v", "e", "r", "g", "e", "n", "c", "e">>}}

\* POST /api/ask, up to the response of a failed check or to the entry of
\* the sample simulation calculate_crystal_enhanced_value(1.0, 'currency').
ApiAsk ==
    /\ Ready
    /\ \E data \in AskBodies :
           /\ request' = [endpoint |-> "ask", data |-> data]
           /\ response' = AskChecks(data)
           /\ IF AskChecks(data).status # 0
              THEN UNCHANGED <<simvars, fixture, osc, extvars, analysis>>
              ELSE SimEnter("ask", Scale, "currency", DefaultConfig)
    /\ UNCHANGED <<results, batch_results>>

\* POST /api/ask, from the return of the sample simulation.
ApiAskRespond ==
    /\ pc = "done"
    /\ caller = "ask"
    /\ response' = RenderAsk(request.data.question.text, outcome)
    /\ DropCall
    /\ UNCHANGED <<request, batch_results, testvars, osc, extvars, analysis>>

NextApi ==
    \/ ApiCalculate \/ ApiCalculateRespond
    \/ ApiBatch \/ BatchEntry \/ BatchRecord \/ BatchRespond
    \/ ApiAsk \/ ApiAskRespond
    \/ SimStep \/ SimFinish

SpecApi == Init /\ [][NextApi]_vars

(***************************************************************************)
(* Callers that share one CrystalCalculator and call it concurrently: each *)
(* call has its locals, the instance is the only shared object.            *)
(***************************************************************************)
\* The largest number of steps of the shared calculator.
MaxSessionSteps == 2

SessionConfigs ==
    {[evolution_steps |-> n, stability_window |-> w, resonance_depth |-> d] :
        n \in 0..MaxSessionSteps, w \in 1..2, d \in 1..2}

SessionValues == {100 * Scale}

SessionTypes == {"currency", "art"}

\* The instance after a call that assigned the next larger number of steps
\* to self.config.
CalculatorAfterCallResized(c) ==
    [c EXCEPT !.config.evolution_steps = @ + 1]

\* The instance after a call: the function assigns no attribute of self, of
\* self.config or of self.crystal.
CalculatorAfterCall(c) == c

\* The locals after the entry of a call: np.linspace fixes the number of
\* steps, the lists are new and empty.
ThreadEntered(value, calculation_type, config) ==
    [IdleThread EXCEPT
        !.pc = IF config.evolution_steps < 0 THEN "done" ELSE "loop",
        !.value = value,
        !.calculation_type = calculation_type,
        !.steps = config.evolution_steps,
        !.outcome = IF config.evolution_steps < 0
                    THEN Raised("ValueError") ELSE NoOutcome]

\* The locals after one iteration, given the step's values and the window.
ThreadWrites(th, v, window) ==
    [th EXCEPT !.k = @ + 1,
               !.stability_window = window,
               !.time_series = AppendStep(@, v),
               !.convergence_history = Append(@, Mean(window))]

\* The locals after one iteration, given the step's values.
ThreadApply(th, config, v) ==
    ThreadWrites(th, v, PushWindow(th.stability_window, v.convergence,
                                   config.stability_window))

\* One iteration of the loop on the locals of one call.
ThreadIteration(th, config) ==
    ThreadApply(th, config,
                StepValues(TimeStep(th.steps, th.k), config.resonance_depth))

\* One iteration of thread t with a stability window that is one list for
\* all the calls.
ThreadSteppedSharedWindow(ths, t, config) ==
    [u \in DOMAIN ths |->
        IF u = t THEN ThreadIteration(ths[t], config)
        ELSE [ths[u] EXCEPT !.stability_window =
                                ThreadIteration(ths[t], config).stability_window]]

\* One iteration of thread t: only its own locals change.
ThreadStepped(ths, t, config) ==
    [ths EXCEPT ![t] = ThreadIteration(ths[t], config)]

\* The locals after the loop: IndexError or the result.
ThreadFinished(th, config) ==
    [th EXCEPT
        !.pc = "done",
        !.outcome = IF th.time_series.void = <<>> THEN Raised("IndexError")
                    ELSE ResultOf(th.value, th.calculation_type, config,
                                  th.time_series, th.convergence_history)]

\* CrystalCalculator(config): a caller builds the shared instance.
Construct ==
    /\ \A t \in Threads : threads[t].pc = "idle"
    /\ \E config \in SessionConfigs : calculator' = NewCalculator(config)
    /\ memo' = NoMemo
    /\ analysis' = NoAnalysis
    /\ UNCHANGED <<threads, sessionrest>>

\* A thread calls calculate_crystal_enhanced_value on the shared instance.
ThreadCall(t) ==
    /\ calculator.constructed
    /\ threads[t].pc = "idle"
    /\ \E value \in SessionValues, calculation_type \in SessionTypes :
           threads' = [threads EXCEPT ![t] =
                          ThreadEntered(value, calculation_type, calculator.config)]
    /\ UNCHANGED <<calculator, memo, analysis, sessionrest>>

\* A thread runs one iteration of its loop.
ThreadStep(t) ==
    /\ threads[t].pc = "loop"
    /\ threads[t].k < threads[t].steps
    /\ threads' = ThreadStepped(threads, t, calculator.config)
    /\ UNCHANGED <<calculator, memo, analysis, sessionrest>>

\* A thread leaves its loop and the function returns or raises.
ThreadFinish(t) ==
    /\ threads[t].pc = "loop"
    /\ threads[t].k = threads[t].steps
    /\ threads' = [threads EXCEPT ![t] = ThreadFinished(threads[t], calculator.config)]
    /\ calculator' = CalculatorAfterCall(calculator)
    /\ UNCHANGED <<memo, analysis, sessionrest>>

\* A thread passes the time series of its result to
\* analyze_convergence_path of the shared instance.
ThreadAnalyze(t) ==
    /\ threads[t].pc = "done"
    /\ threads[t].outcome.kind = "result"
    /\ analysis = NoAnalysis
    /\ analysis' = [samples |-> threads[t].k,
                    outcome |-> analyze_convergence_path(threads[t].outcome.time_series)]
    /\ UNCHANGED <<sessionvars, sessionrest>>

\* A thread is done with its result; the session may keep it to compare
\* later calls with.
ThreadReturn(t) ==
    /\ threads[t].pc = "done"
    /\ threads' = [threads EXCEPT ![t] = IdleThread]
    /\ \/ memo' = [set |-> TRUE, value |-> threads[t].value,
                   calculation_type |-> threads[t].calculation_type,
                   outcome |-> threads[t].outcome]
       \/ UNCHANGED memo
    /\ UNCHANGED <<calculator, analysis, sessionrest>>

NextSession ==
    \/ Construct
    \/ \E t \in Threads :
           \/ ThreadCall(t) \/ ThreadStep(t) \/ ThreadFinish(t)
           \/ ThreadAnalyze(t) \/ ThreadReturn(t)

SpecSession == Init /\ [][NextSession]_vars

(***************************************************************************)
(* Properties of the simulation                                            *)
(***************************************************************************)
ChannelNames ==
    {"void", "filament", "emergence", "resonance", "crystal_phase", "convergence"}

\* void + filament + emergence at step i of a time series.
EnergySum(series, i) == series.void[i] + series.filament[i] + series.emergence[i]

\* C1: at every step recorded so far, and in the final energies a successful
\* call returns, void + filament + emergence is 1 up to rounding (three
\* quotients, one unit each).
C1_EnergiesSumToOne ==
    /\ \A i \in 1..Len(time_series.void) :
           Abs(EnergySum(time_series, i) - Scale) <= 3
    /\ outcome.kind = "result" =>
           Abs(outcome.void_energy + outcome.filament_energy
               + outcome.emergence_energy - Scale) <= 3

\* C1 witness: a successful call of several steps in which all three
\* energies are nonzero at the last step.
C1_Witness ==
    /\ pc = "done"
    /\ outcome.kind = "result"
    /\ Len(time_series.void) >= 3
    /\ outcome.void_energy # 0
    /\ outcome.filament_energy # 0
    /\ outcome.emergence_energy # 0

\* C2: the time series always has exactly the six channels, after k steps
\* each channel has k elements, and a successful call with evolution_steps = N
\* returns six channels of N elements each.
C2_ChannelLengths ==
    /\ DOMAIN time_series = ChannelNames
    /\ \A ch \in ChannelNames : Len(time_series[ch]) = k
    /\ outcome.kind = "result" =>
           /\ DOMAIN outcome.time_series = ChannelNames
           /\ \A ch \in ChannelNames :
                  Len(outcome.time_series[ch]) = call.config.evolution_steps

\* C2 witness: a successful call with the default 100 steps has returned.
C2_Witness ==
    /\ pc = "done"
    /\ outcome.kind = "result"
    /\ call.config.evolution_steps = DefaultSteps
    /\ k = DefaultSteps

\* A configuration the data model rules out: a count that is not positive,
\* or a window above the number of steps.
InvalidConfig(config) ==
    \/ config.evolution_steps <= 0
    \/ config.stability_window <= 0
    \/ config.resonance_depth <= 0
    \/ config.stability_window > config.evolution_steps

\* C4 as claimed: a call with an invalid configuration ends in an error, not
\* in a result.
C4_InvalidConfigFailsFast ==
    (pc = "done" /\ InvalidConfig(call.config)) => outcome.kind = "error"

\* The multiplier table as the specification states it.
SpecMultiplier ==
    [currency |-> 867000, human_life |-> 1618000, natural_resource |-> 1414000,
     crypto |-> 618000, art |-> 1732000, radioactive_potato |-> PI]

\* 0.4 * final_void + 0.4 * final_filament + 0.2 * final_emergence
FinalMix(o) ==
    Mul(o.void_energy, 4 * (Scale \div 10))
    + Mul(o.filament_energy, 4 * (Scale \div 10))
    + Mul(o.emergence_energy, 2 * (Scale \div 10))

\* C9: a call with a label outside the table ends without error whenever the
\* loop ran at least once, and its qdt_value is value * mix; with a label of
\* the table, qdt_value is value * (the table's entry) * mix.
C9_UnknownTypeDefaultsToOne ==
    (pc = "done" /\ call.config.evolution_steps >= 1) =>
        /\ outcome.kind = "result"
        /\ call.calculation_type \notin DefinedTypes =>
               outcome.qdt_value = Mul(call.value, FinalMix(outcome))
        /\ call.calculation_type \in DefinedTypes =>
               outcome.qdt_value =
                   Mul(Mul(call.value, SpecMultiplier[call.calculation_type]),
                       FinalMix(outcome))

\* C9 witness: a call with the label "gold" and value 100 returned a nonzero
\* qdt_value.
C9_Witness ==
    /\ pc = "done"
    /\ call.calculation_type = "gold"
    /\ call.value = 100 * Scale
    /\ outcome.kind = "result"
    /\ outcome.qdt_value # 0

\* The qdt_values recorded so far are pairwise distinct.
ResultsDistinct == \A i, j \in 1..Len(results) : i # j => results[i] # results[j]

\* C10 as claimed: for any fixed value and number of steps the six types
\* give six pairwise distinct qdt_values.
C10_TypesDistinctAnyValue == Len(results) = Len(TestTypes) => ResultsDistinct

\* C10 amended: for any fixed value other than 0 the six types give six
\* pairwise distinct qdt_values.
C10_TypesDistinctNonzeroValue ==
    (fixture.active /\ fixture.value # 0) => ResultsDistinct

\* C10 witness: the six calls were made with value 100 and the default
\* configuration.
C10_Witness ==
    /\ fixture.active
    /\ fixture.value = 100 * Scale
    /\ fixture.config = DefaultConfig
    /\ Len(results) = Len(TestTypes)

\* C8 as claimed: when frequency and amplitude are passed explicitly the
\* result is amplitude * sin(2 pi t frequency), of magnitude at most amplitude.
C8_ExplicitArgumentsBound ==
    (osc.frequency # None /\ osc.amplitude # None) =>
        /\ Abs(osc.value) <= osc.amplitude
        /\ osc.value = Mul(osc.amplitude, Sin(Mul(Mul(TWO_PI, osc.t), osc.frequency)))

\* C3: analyze_convergence_path on channels with fewer than 2 samples reports
\* an "insufficient samples" error: it neither returns metrics nor raises
\* another error.
C3_FewSamplesReported ==
    (analysis.outcome.kind # "none" /\ analysis.samples < 2) =>
        /\ analysis.outcome.kind = "error"
        /\ analysis.outcome.error = "InsufficientSamples"

(***************************************************************************)
(* Properties of the HTTP layer                                            *)
(***************************************************************************)
\* The body has the fields float() and int() convert: a value that is a
\* number and, when present, steps that are a number.
NumericValue(data) ==
    /\ "value" \in DOMAIN data
    /\ data.value \notin {None, NotANumber}

NumericSteps(data) ==
    "evolution_steps" \in DOMAIN data => data.evolution_steps \notin {None, NotANumber}

\* The fields of the body other than the calculation type are valid: a
\* value above 0 and steps absent or within 10..1000.
OtherwiseValid(data) ==
    /\ {"value", "calculation_type"} \subseteq DOMAIN data
    /\ NumericValue(data)
    /\ data.value > 0
    /\ NumericSteps(data)
    /\ "evolution_steps" \in DOMAIN data =>
           (data.evolution_steps >= 10 /\ data.evolution_steps <= 1000)

Answered == response.status # 0

\* C5: a /api/calculate request that passes validation (fields present,
\* value > 0, a calculation type the handler accepts, steps in 10..1000) is
\* answered 200 with the final energies, the metrics and the time series of
\* the simulation result.
C5_ValidatedRequestAnswered200 ==
    (/\ request.endpoint = "calculate"
     /\ Answered
     /\ OtherwiseValid(request.data)
     /\ request.data.calculation_type \in {"currency", "energy", "probability"}) =>
        /\ response.status = 200
        /\ {"void_energy", "filament_energy", "emergence_energy",
            "convergence_metrics", "time_series"} \subseteq DOMAIN response

\* C6: a /api/calculate request with one of the six defined category labels
\* and otherwise valid fields is not rejected as an invalid calculation type:
\* it reaches the simulation.
C6_DefinedLabelsAccepted ==
    (/\ request.endpoint = "calculate"
     /\ OtherwiseValid(request.data)
     /\ request.data.calculation_type \in
            {"currency", "human_life", "natural_resource", "crypto", "art",
             "radioactive_potato"}) =>
        /\ response.status # 400
        /\ ~Answered => caller = "calculate"

HttpCallers == {"calculate", "batch", "ask"}

\* A simulation started by a handler is being run or has just returned.
HttpSimulation == caller \in HttpCallers /\ pc \in {"loop", "done"}

\* The steps the body asks for are a number outside 10..1000.
StepsOutOfRange(data) ==
    /\ "evolution_steps" \in DOMAIN data
    /\ data.evolution_steps \notin {None, NotANumber}
    /\ (data.evolution_steps < 10 \/ data.evolution_steps > 1000)

\* Every simulation of the HTTP layer has 10..1000 steps, and those of
\* /api/batch and /api/ask the default 100.
HttpStepsWithinLimits ==
    /\ HttpSimulation =>
           (call.config.evolution_steps >= 10 /\ call.config.evolution_steps <= 1000)
    /\ (HttpSimulation /\ caller \in {"batch", "ask"}) =>
           call.config.evolution_steps = 100

RECURSIVE SoloLoop(_, _)
\* The locals of a call that runs its loop to the end with no other call
\* in progress.
SoloLoop(th, config) ==
    IF th.pc = "loop" /\ th.k < th.steps
    THEN SoloLoop(ThreadIteration(th, config), config)
    ELSE th

\* What a call returns or raises when it runs alone.
SoloOutcome(value, calculation_type, config) ==
    IF config.evolution_steps < 0 THEN Raised("ValueError")
    ELSE ThreadFinished(SoloLoop(ThreadEntered(value, calculation_type, config),
                                 config),
                        config).outcome

\* A step that changes the locals of a call leaves the instance as it was.
CallKeepsInstance == threads' # threads => calculator' = calculator

\* C12: calls that interleave on one instance never write to the
\* configuration, the oscillator parameters or another field of the
\* instance, and each returns what it returns when run alone.
C12_InterleavedCallsIndependent ==
    /\ [](\A t \in Threads :
              threads[t].pc = "done" =>
                  threads[t].outcome =
                      SoloOutcome(threads[t].value, threads[t].calculation_type,
                                  calculator.config))
    /\ [](calculator.constructed => calculator = NewCalculator(calculator.config))
    /\ [][CallKeepsInstance]_vars

\* C12 witness: two calls are inside their loops at once, each with a
\* window that is full, at different iterations.
C12_Witness ==
    /\ threads[1].pc = "loop"
    /\ threads[2].pc = "loop"
    /\ threads[1].k = 2
    /\ threads[2].k = 1
    /\ Len(threads[1].stability_window) = 2
    /\ threads[1].calculation_type # threads[2].calculation_type

\* C13: a successful call with the default configuration, the label currency
\* and a positive value returns a qdt_value strictly above 0 and strictly
\* below the original value.
C13_CurrencyValueReduced ==
    (/\ pc = "done"
     /\ outcome.kind = "result"
     /\ call.config = DefaultConfig
     /\ call.calculation_type = "currency"
     /\ call.value > 0)
    => /\ outcome.qdt_value > 0
       /\ outcome.qdt_value < outcome.original_value

\* C13 witness: the call of the test, 100.0 as currency under the default
\* configuration, has returned after its 100 steps.
C13_Witness ==
    /\ pc = "done"
    /\ caller = "direct"
    /\ outcome.kind = "result"
    /\ call.config = DefaultConfig
    /\ call.calculation_type = "currency"
    /\ call.value = 100 * Scale
    /\ outcome.original_value = 100 * Scale
    /\ Len(outcome.time_series.void) = DefaultSteps

\* C14: every analysis of a time series of at least two samples returns
\* metrics whose effective_dimensionality is one of 1, 2, 3, 4, also when a
\* channel of the series is constant.
C14_DimensionalityOneToFour ==
    (analysis.outcome.kind # "none" /\ analysis.samples >= 2) =>
        /\ analysis.outcome.kind = "metrics"
        /\ analysis.outcome.effective_dimensionality \in 1..4

\* C15: a successful call with a valid configuration returns a
\* stability_score in the closed interval [0, 1].
C15_StabilityScoreInUnitInterval ==
    (/\ pc = "done"
     /\ outcome.kind = "result"
     /\ ~InvalidConfig(call.config))
    => /\ ~IsNaN(outcome.convergence_metrics.stability_score)
       /\ outcome.convergence_metrics.stability_score >= 0
       /\ outcome.convergence_metrics.stability_score <= Scale

\* C16: in a successful call with the default configuration the last
\* element of the convergence channel is strictly smaller than its first
\* element, the one computed at t = 0.
C16_ConvergenceImproves ==
    (/\ pc = "done"
     /\ outcome.kind = "result"
     /\ call.config = DefaultConfig)
    => outcome.time_series.convergence[Len(outcome.time_series.convergence)]
           < outcome.time_series.convergence[1]

\* C17: once the modulation is sampled over the steps 0 to 100 with the
\* default parameters, its magnitude at the last step, 100, is strictly
\* smaller than its magnitude at the first step, 0.
C17_ModulationDamped ==
    Len(modulations) = ModulationSamples =>
        Abs(modulations[ModulationSamples]) < Abs(modulations[1])

\* The values of the list a dict binds to the key of its n-th item.
ValuesAt(d, n) == heap[d[n].list]

\* C18: when time_evolution_crystalized has returned, the returned dict has
\* the keys of the input and lists of the same lengths; and when it was given
\* fields.copy() with time_step = 1.0, every nonempty list of the returned
\* dict differs from the list the caller's fields holds under the same key,
\* which still has the values it was created with.
C18_CallerFieldsKept ==
    evolution.pc = "returned" =>
        /\ Len(evolution.evolved_fields) = Len(fields)
        /\ \A n \in 1..Len(fields) :
               /\ evolution.evolved_fields[n].key = fields[n].key
               /\ Len(ValuesAt(evolution.evolved_fields, n))
                      = Len(evolution.created[n].values)
        /\ (evolution.copied /\ evolution.time_step = Scale) =>
               \A n \in 1..Len(fields) :
                   evolution.created[n].values # <<>> =>
                       /\ ValuesAt(evolution.evolved_fields, n) # ValuesAt(fields, n)
                       /\ ValuesAt(fields, n) = evolution.created[n].values

\* n is prime, by trial division up to its square root.
IsPrime(n) == n > 1 /\ \A d \in 2..46340 : d * d > n \/ n % d # 0

\* C19: every call lucas_lehmer_small(p) with 2 <= p <= 31 returns true
\* exactly when 2^p - 1 is prime, which is so for p in {2, 3, 5, 7, 13, 17,
\* 19, 31} and for no other p of the range; and verify_algorithm returns 7
\* entries that all contain "PRIME".
C19_LucasLehmerExact ==
    /\ lucas.pc = "done" =>
           /\ lucas.result = IsPrime(Mersenne(lucas.p))
           /\ lucas.result = (lucas.p \in {2, 3, 5, 7, 13, 17, 19, 31})
    /\ verification.pc = "returned" =>
           /\ Len(verification.results) = 7
           /\ \A n \in 1..Len(verification.results) :
                  Contains(verification.results[n], <<"PRIME">>)

\* C19 witness: verify_algorithm has returned its list, whose last entry
\* is the one of M_31, and a later call with the prime exponent 11 has run
\* its 9 passes and returned false.
C19_Witness ==
    /\ verification.pc = "returned"
    /\ verification.results[7] = <<"M_", "31", ": ", "PRIME">>
    /\ lucas.pc = "done"
    /\ lucas.p = 11
    /\ lucas.n = 9
    /\ ~lucas.result

\* C20: authenticate_user returns the PUBLIC level for the user key "0" with
\* the challenge "0", and the PRIME_HUNTER level for the user key "12345"
\* with the challenge "244191827", the prime seed.
C20_SeedChallengeIsPrimeHunter ==
    auth.pc = "done" =>
        /\ (auth.user_key = 0 /\ auth.challenge = 0) =>
               /\ auth.outcome.kind = "level"
               /\ auth.outcome.level = access_levels.PUBLIC
        /\ (auth.user_key = TestUserKey /\ auth.challenge = PRIME_SEED) =>
               /\ auth.outcome.kind = "level"
               /\ auth.outcome.level = access_levels.PRIME_HUNTER

\* C21: after k iterations of the loop, under a window size that is not
\* negative, the stability window is the last min(k, stability_window)
\* elements of the convergence channel in their order, the convergence
\* history has k entries, and its k-th entry is the mean of that window.
C21_WindowIsRecentConvergence ==
    (pc \in {"loop", "done"} /\ call.config.stability_window >= 0) =>
        /\ Len(stability_window) = Min(k, call.config.stability_window)
        /\ Len(stability_window) <= call.config.stability_window
        /\ stability_window =
               SubSeq(time_series.convergence, k - Len(stability_window) + 1, k)
        /\ Len(convergence_history) = k
        /\ k >= 1 => convergence_history[k] = Mean(stability_window)

\* C21 witness: in the third iteration a window of size 2 has evicted the
\* first convergence value and holds two different later ones.
C21_Witness ==
    /\ pc = "loop"
    /\ k = 3
    /\ call.config.stability_window = 2
    /\ stability_window = <<time_series.convergence[2], time_series.convergence[3]>>
    /\ time_series.convergence[1] # time_series.convergence[2]
    /\ time_series.convergence[2] # time_series.convergence[3]
    /\ convergence_history[3] = Mean(stability_window)

\* m is a prime number, by trial division by every smaller number.
PrimeNumber(m) == m > 1 /\ \A d \in 2..(m - 1) : m % d # 0

\* The prime numbers below num.
PrimesBelow(num) == {m \in 2..(num - 1) : PrimeNumber(m)}

\* C22: every call _get_prime(n) with n >= 0 returns, and what it returns is
\* the prime with exactly n primes below it (2 for n = 0, 3 for n = 1, ...);
\* on the way its list holds the primes below num in increasing order, each
\* once; and the operator the resonance terms use gives the same prime, so
\* the terms of a step of depth n + 1 use the first n + 1 primes, each once.
C22_GetPrimeIsNthPrime ==
    /\ [](sieve.pc \in {"loop", "returned"} =>
             /\ {sieve.primes[i] : i \in 1..Len(sieve.primes)}
                    = PrimesBelow(sieve.num)
             /\ \A i \in 1..(Len(sieve.primes) - 1) :
                    sieve.primes[i] < sieve.primes[i + 1])
    /\ [](sieve.pc = "returned" =>
             /\ PrimeNumber(sieve.result)
             /\ Cardinality(PrimesBelow(sieve.result)) = sieve.n
             /\ GetPrime(sieve.n) = sieve.result
             /\ [j \in 1..(sieve.n + 1) |-> GetPrime(j - 1)] = sieve.primes)
    /\ (sieve.pc = "loop") ~> (sieve.pc = "returned")

\* C22 witness: the call with n = 5 has returned 13 after passing over the
\* composite numbers up to 12.
C22_Witness ==
    /\ sieve.pc = "returned"
    /\ sieve.n = 5
    /\ sieve.result = 13
    /\ sieve.primes = <<2, 3, 5, 7, 11, 13>>
    /\ sieve.num = 14

\* The resonance terms of the iteration completed last.
LastResonances ==
    Resonances(TimeStep(call.config.evolution_steps, k - 1),
               time_crystal_modulation(TimeStep(call.config.evolution_steps, k - 1)),
               call.config.resonance_depth)

\* The sum of the magnitudes of the terms.
Magnitude(terms) == Sum([j \in 1..Len(terms) |-> Abs(terms[j])])

\* The quotient the element recorded last has to be, given the terms.
ExpectedResonance(terms, last) ==
    IF Magnitude(terms) = 0 THEN last = 0
    ELSE last = Div(Sum(terms), Magnitude(terms))

\* C23: the element the last iteration appended to the resonance channel is
\* the sum of the resonance terms divided by the sum of their magnitudes
\* when that sum is not zero, and 0 otherwise (at t = 0, and with a
\* resonance_depth of 0 or less); every element of the channel lies in
\* [-1, 1] and none is nan.
C23_ResonanceNormalized ==
    (pc \in {"loop", "done"}) =>
        /\ \A i \in 1..Len(time_series.resonance) :
               /\ ~IsNaN(time_series.resonance[i])
               /\ time_series.resonance[i] >= -Scale
               /\ time_series.resonance[i] <= Scale
        /\ (pc = "loop" /\ k >= 1) =>
               ExpectedResonance(LastResonances, time_series.resonance[k])

\* C23 witness: a call of depth 2 whose first element is the 0 of t = 0 and
\* whose last element is a proper fraction, terms of both signs having
\* partly cancelled.
C23_Witness ==
    /\ pc = "loop"
    /\ k >= 2
    /\ call.config.resonance_depth = 2
    /\ time_series.resonance[1] = 0
    /\ time_series.resonance[k] # 0
    /\ Abs(time_series.resonance[k]) < Scale

\* What authenticate_user answers to the request require_auth holds.
GuardAnswer ==
    authenticate_user(guard.auth_header.credentials[1], ChallengeHeader(guard.challenge))

\* The request carries a user key and authenticate_user returns a level.
GuardAuthenticates ==
    /\ guard.auth_header.present
    /\ Len(guard.auth_header.credentials) >= 1
    /\ GuardAnswer.kind = "level"

\* C24: the handler behind require_auth(level) is invoked only for a request
\* with an Authorization header whose level is at least the level required,
\* and only after track_auth_attempt has recorded the attempt; a request
\* without the header is answered 401 and one with a lower level 403, the
\* attempt recorded, and neither reaches the handler.
C24_HandlerBehindAuthentication ==
    /\ guard.invoked =>
           /\ GuardAuthenticates
           /\ GuardAnswer.level >= access_levels[guard.level]
           /\ guard.tracked
    /\ (guard.pc = "done" /\ ~guard.auth_header.present) =>
           guard.status = 401 /\ ~guard.invoked
    /\ (guard.pc = "done" /\ GuardAuthenticates
            /\ GuardAnswer.level < access_levels[guard.level]) =>
           guard.status = 403 /\ ~guard.invoked /\ guard.tracked

\* A request below the required level has been refused.
C24_Witness ==
    /\ guard.pc = "done"
    /\ guard.status = 403
    /\ guard.tracked
    /\ guard.level = "PRIME_HUNTER"

\* C25: require_auth answers 401 with an auth_error event only when the
\* authentication failed; an exception of the handler is not answered so.
C25_HandlerErrorsPropagate ==
    (guard.pc = "done" /\ guard.invoked /\ guard.status # 200) =>
        /\ guard.status # 401
        /\ \A i \in 1..Len(guard.logged) : guard.logged[i] # "auth_error"

\* The user keys float() parses.
NumericKeys == UserKeys \ {NotANumber}

\* C26: the level of an authenticated request is PUBLIC or PRIME_HUNTER and
\* is the level every other numeric user key gets for the same challenge; a
\* handler that requires GUARDIAN is never invoked, and a request with a
\* challenge that passes for some key reaches a PRIME_HUNTER handler.
C26_LevelIgnoresUserKey ==
    /\ (guard.pc = "authenticated" \/ guard.tracked) =>
           /\ guard.access_level \in {access_levels.PUBLIC, access_levels.PRIME_HUNTER}
           /\ \A other \in NumericKeys :
                  authenticate_user(other, ChallengeHeader(guard.challenge)).level
                      = guard.access_level
    /\ guard.level = "GUARDIAN" => ~guard.invoked
    /\ (guard.pc = "done" /\ guard.tracked /\ guard.level = "PRIME_HUNTER"
            /\ \E other \in NumericKeys :
                   authenticate_user(other, ChallengeHeader(guard.challenge)).level
                       = access_levels.PRIME_HUNTER) =>
           guard.invoked

\* The key "0" has reached a PRIME_HUNTER handler with a passing challenge.
C26_Witness ==
    /\ guard.invoked
    /\ guard.level = "PRIME_HUNTER"
    /\ guard.user_key = 0
    /\ guard.access_level = access_levels.PRIME_HUNTER

\* The threads between INCR and EXPIRE of the key.
Incrementing(key) ==
    {i \in Trackers : trackers[i].pc = "incremented" /\ trackers[i].user_key = key}

\* C27: the counter of a user key is the number of its failed attempts since
\* its last success or expiry and carries a time to live once the attempt
\* has armed it; the event suspicious_auth_attempts is logged by a failed
\* attempt exactly when the counter its INCR returned is at least 5, which
\* is that number of failed attempts, and never by a successful one, however
\* the calls interleave.
C27_FailureCounterPerKey ==
    /\ \A key \in TrackedKeys :
           /\ auth_attempts[key].value = failures[key]
           /\ (auth_attempts[key].value > 0 /\ Incrementing(key) = {}) =>
                  auth_attempts[key].armed
    /\ \A i \in Trackers :
           /\ trackers[i].pc \in {"incremented", "expired", "returned"} =>
                  trackers[i].attempts = trackers[i].counted
           /\ trackers[i].pc = "returned" =>
                  (trackers[i].logged # <<>>) =
                      (~trackers[i].success
                           /\ trackers[i].counted >= FailedAuthThreshold)

\* Two failed attempts of one key have interleaved, and the fifth is logged.
C27_Witness ==
    /\ trackers[1].pc = "returned"
    /\ trackers[1].logged = <<"suspicious_auth_attempts">>
    /\ trackers[1].attempts = FailedAuthThreshold
    /\ trackers[2].pc = "incremented"
    /\ trackers[2].user_key = trackers[1].user_key
    /\ trackers[2].attempts = FailedAuthThreshold - 1

\* The calls of log_security_event that have pushed and not yet trimmed.
InFlight == {i \in Loggers : loggers[i] = "pushed"}

\* The list between the calls of log_security_event.
LogBounded ==
    /\ Len(security_events) <= LastKept + 1 + Cardinality(InFlight)
    /\ InFlight = {} => Len(security_events) <= LastKept + 1
    /\ Len(security_events) >= Min(pushed, LastKept + 1)
    /\ \A j \in 1..Len(security_events) : security_events[j] = pushed + 1 - j

\* A call of log_security_event completes.
LogCompletes == \E i \in Loggers : loggers[i] = "pushed" /\ loggers'[i] = "idle"

\* C28: security_events holds the most recently pushed events, newest first:
\* never more than 1000 plus one for every call between its push and its
\* trim, at most 1000 whenever no call is between the two, and at most 1000
\* when a call of log_security_event completes.
C28_LastThousandEvents ==
    /\ []LogBounded
    /\ [][LogCompletes => Len(security_events') <= LastKept + 1]_vars

\* Two calls have pushed onto a full list and neither has trimmed.
C28_Witness ==
    /\ Len(security_events) = LastKept + 3
    /\ Cardinality(InFlight) = 2

\* The history is the last deliveries that succeeded, at most 1000 of them,
\* oldest first.
AlertHistoryBounded ==
    /\ Len(alert_history) = Min(delivered, MaxHistory)
    /\ \A j \in 1..Len(alert_history) :
           alert_history[j] = delivered - Len(alert_history) + j

\* The entries get_alert_history(limit) owes: the last min(limit, len).
RecentAlerts(limit) ==
    SubSeq(alert_history, Len(alert_history) - Min(limit, Len(alert_history)) + 1,
           Len(alert_history))

\* C29: the alert history holds at most 1000 entries, the most recent
\* deliveries that succeeded, and get_alert_history(limit) returns at most
\* limit entries, the most recent ones, oldest first, for every limit >= 0.
C29_AlertHistoryRecent ==
    /\ AlertHistoryBounded
    /\ alerting.pc = "read" =>
           /\ Len(alerting.returned) <= alerting.limit
           /\ alerting.returned = RecentAlerts(alerting.limit)

\* The same for the limits above 0 alone.
AlertHistoryRecentAboveZero ==
    /\ AlertHistoryBounded
    /\ (alerting.pc = "read" /\ alerting.limit > 0) =>
           /\ Len(alerting.returned) <= alerting.limit
           /\ alerting.returned = RecentAlerts(alerting.limit)

\* The request is a batch whose calculations are a list.
BatchOfList ==
    /\ request.endpoint = "batch"
    /\ "calculations" \in DOMAIN request.data
    /\ request.data.calculations.type = "list"

\* The entry recorded for a calculation is the one the calculation owes: an
\* error for one that is invalid or raises, the result for its own value
\* otherwise.
EntryFor(result, calc) ==
    IF EntryError(calc) # "" THEN DOMAIN result = {"error"}
    ELSE \/ DOMAIN result = {"error"}
         \/ /\ "original_value" \in DOMAIN result
            /\ result.original_value = calc.value

\* The results are those of the first calculations, in their order.
ResultsInOrder(list, calculations) ==
    /\ Len(list) <= Len(calculations)
    /\ \A i \in 1..Len(list) : EntryFor(list[i], calculations[i])

\* C30: a batch of more than 10 calculations is answered 400 and no
\* simulation runs for it; a batch of at most 10 gets one entry for each
\* calculation, in the order of the list, an error entry for a calculation
\* that is invalid or whose value float() rejects, and the calculations
\* after such an entry are still processed.
C30_BatchOneEntryEach ==
    BatchOfList =>
        IF Len(request.data.calculations.items) > MaxBatchSize
        THEN /\ response.status = 400
             /\ caller # "batch"
             /\ batch_results = <<>>
        ELSE /\ response.status \in {0, 200}
             /\ ResultsInOrder(batch_results, request.data.calculations.items)
             /\ response.status = 200 =>
                    /\ Len(response.results) = Len(request.data.calculations.items)
                    /\ ResultsInOrder(response.results,
                                      request.data.calculations.items)

\* A batch whose first calculation has null for a value and whose second is
\* valid has been answered with an error entry and a result.
C30_Witness ==
    /\ BatchOfList
    /\ response.status = 200
    /\ Len(response.results) = 2
    /\ DOMAIN response.results[1] = {"error"}
    /\ "original_value" \in DOMAIN response.results[2]
    /\ response.results[2].original_value = Scale

====
